---- MODULE Spec2Model ----
(***************************************************************************)
(* Model of the record submission core of server/index.js: the validator,  *)
(* the account lock, the duplicate checks, the signature store, the        *)
(* INSERT/UPDATE of ocr_data and the orphan-signature sweep.               *)
(*                                                                         *)
(* Strings are sequences of one-character strings.  A request field that   *)
(* is undefined, null or '' is the empty sequence: String(value || '')     *)
(* maps all three to '' and parseMoney maps all three to null.             *)
(***************************************************************************)
EXTENDS Integers, Sequences, FiniteSets, TLC

(***************************************************************************)
(* Bounds of the model.                                                    *)
(***************************************************************************)
NumRequests == 2
MaxSubmissions == 3

(***************************************************************************)
(* Characters and string helpers (JavaScript String / RegExp semantics).   *)
(***************************************************************************)
Digits == <<"0", "1", "2", "3", "4", "5", "6", "7", "8", "9">>
LowerLetters == <<"a", "b", "c", "d", "e", "f", "g", "h", "i", "j", "k", "l", "m",
                  "n", "o", "p", "q", "r", "s", "t", "u", "v", "w", "x", "y", "z">>
UpperLetters == <<"A", "B", "C", "D", "E", "F", "G", "H", "I", "J", "K", "L", "M",
                  "N", "O", "P", "Q", "R", "S", "T", "U", "V", "W", "X", "Y", "Z">>
Whitespace == {" ", "\t", "\n"}

Range(s) == {s[i] : i \in DOMAIN s}
DigitSet == Range(Digits)
LowerSet == Range(LowerLetters)
UpperSet == Range(UpperLetters)
IsDigit(c) == c \in DigitSet
IsLetter(c) == c \in LowerSet \cup UpperSet
IsSpace(c) == c \in Whitespace

DigitValue(c) == (CHOOSE i \in DOMAIN Digits : Digits[i] = c) - 1

UpperChar(c) ==
    IF c \in LowerSet
    THEN UpperLetters[CHOOSE i \in DOMAIN LowerLetters : LowerLetters[i] = c]
    ELSE c

LowerChar(c) ==
    IF c \in UpperSet
    THEN LowerLetters[CHOOSE i \in DOMAIN UpperLetters : UpperLetters[i] = c]
    ELSE c

toUpperCase(s) == [i \in DOMAIN s |-> UpperChar(s[i])]
toLowerCase(s) == [i \in DOMAIN s |-> LowerChar(s[i])]

RECURSIVE TrimLeft(_)
TrimLeft(s) == IF s # <<>> /\ IsSpace(Head(s)) THEN TrimLeft(Tail(s)) ELSE s

RECURSIVE TrimRight(_)
TrimRight(s) ==
    IF s # <<>> /\ IsSpace(s[Len(s)]) THEN TrimRight(SubSeq(s, 1, Len(s) - 1)) ELSE s

trim(s) == TrimRight(TrimLeft(s))

startsWith(s, p) == Len(s) >= Len(p) /\ SubSeq(s, 1, Len(p)) = p
endsWith(s, p) == Len(s) >= Len(p) /\ SubSeq(s, Len(s) - Len(p) + 1, Len(s)) = p
includes(s, p) == \E i \in 1..(Len(s) - Len(p) + 1) : SubSeq(s, i, i + Len(p) - 1) = p

(***************************************************************************)
(* Normalizers of the validator.                                           *)
(***************************************************************************)
normalizeAccountNumber(value) ==
    SelectSeq(toUpperCase(trim(value)), LAMBDA c : ~IsSpace(c))

\* a plausible slip: the reference is trimmed and its separators are kept
normalizeTransactionRefKeepingSeparators(value) == trim(value)

normalizeTransactionRef(value) == trim(SelectSeq(value, IsDigit))

normalizeText(value) == trim(value)

countDigits(value) == Len(SelectSeq(value, IsDigit))

(***************************************************************************)
(* Numbers.  A finite decimal is its sign, integer part and fraction       *)
(* digits (trailing zeros dropped), so "50", "50.0" and "50.00" are one    *)
(* value; Null is JavaScript null and NaN is NaN.                          *)
(***************************************************************************)
Null == [kind |-> "null"]
NaN == [kind |-> "NaN"]
Num(neg, ip, fr) == [kind |-> "num", neg |-> neg, ip |-> ip, fr |-> fr]

RECURSIVE DigitsToNat(_)
DigitsToNat(s) ==
    IF s = <<>> THEN 0
    ELSE 10 * DigitsToNat(SubSeq(s, 1, Len(s) - 1)) + DigitValue(s[Len(s)])

RECURSIVE DigitPrefix(_)
DigitPrefix(s) ==
    IF s # <<>> /\ IsDigit(Head(s)) THEN <<Head(s)>> \o DigitPrefix(Tail(s)) ELSE <<>>

RECURSIVE StripTrailingZeros(_)
StripTrailingZeros(s) ==
    IF s # <<>> /\ s[Len(s)] = "0" THEN StripTrailingZeros(SubSeq(s, 1, Len(s) - 1)) ELSE s

\* Number.parseFloat on a string without exponent marker: optional sign,
\* the longest digits[.digits] or .digits prefix; anything else is NaN.
parseFloat(str) ==
    LET s0 == TrimLeft(str)
        signed == s0 # <<>> /\ Head(s0) \in {"-", "+"}
        neg == s0 # <<>> /\ Head(s0) = "-"
        s1 == IF signed THEN Tail(s0) ELSE s0
        ipDigits == DigitPrefix(s1)
        rest == SubSeq(s1, Len(ipDigits) + 1, Len(s1))
        frDigits == IF rest # <<>> /\ Head(rest) = "." THEN DigitPrefix(Tail(rest)) ELSE <<>>
    IN  IF ipDigits = <<>> /\ frDigits = <<>> THEN NaN
        ELSE Num(neg, DigitsToNat(ipDigits), StripTrailingZeros(frDigits))

parseMoney(value) ==
    IF value = <<>> THEN Null
    ELSE LET normalized == trim(SelectSeq(value, LAMBDA c : c # ","))
         IN  IF normalized = <<>> THEN Null ELSE parseFloat(normalized)

IsNaN(n) == n = NaN
\* n < k for a number n and a natural k
LessThan(n, k) == n.kind = "num" /\ (n.neg \/ n.ip < k)

(***************************************************************************)
(* validateOcrPayload: every rule is evaluated, the messages are appended  *)
(* in source order, and the normalized data is returned beside them.       *)
(***************************************************************************)
MinTransactionDigits == 15
MinAccountDigits == 6
MinBillAmount == 50

ErrIf(cond, msg) == IF cond THEN <<msg>> ELSE <<>>

\* /^[A-Za-z][A-Za-z\s,\-./']*$/
IsValidCustomerName(s) ==
    /\ s # <<>>
    /\ IsLetter(s[1])
    /\ \A i \in 2..Len(s) : IsLetter(s[i]) \/ IsSpace(s[i]) \/ s[i] \in {",", "-", ".", "/", "'"}

\* accountNumber.replace(/^B/, '') then /^\d{6,}$/
StripLeadingB(s) == IF s # <<>> /\ Head(s) = "B" THEN Tail(s) ELSE s
IsAccountDigits(s) == Len(s) >= MinAccountDigits /\ \A i \in DOMAIN s : IsDigit(s[i])

\* a plausible slip: the validator returns at its first violation
validateOcrPayloadFirstErrorOnly(payload) ==
    LET transactionRef == normalizeTransactionRef(payload.transactionRef)
        accountNumber == normalizeAccountNumber(payload.accountNumber)
        customerName == normalizeText(payload.customerName)
        scannerName == normalizeText(payload.scannerName)
        date == normalizeText(payload.date)
        company == normalizeText(payload.company)
        electricityBill == parseMoney(payload.electricityBill)
        amountDue == parseMoney(payload.amountDue)
        totalSales == parseMoney(payload.totalSales)
        accountDigits == StripLeadingB(accountNumber)
        collected ==
            ErrIf(transactionRef = <<>>, "Transaction Reference is required")
            \o ErrIf(transactionRef # <<>> /\ countDigits(transactionRef) < MinTransactionDigits,
                     "Transaction reference must have at least 15 digits")
            \o ErrIf(date = <<>>, "Date is required")
            \o ErrIf(customerName = <<>>, "Customer Name is required")
            \o ErrIf(customerName # <<>> /\ ~IsValidCustomerName(customerName),
                     "Customer Name must contain valid text only")
            \o ErrIf(accountNumber = <<>>, "Account Number is required")
            \o ErrIf(accountNumber # <<>> /\ ~IsAccountDigits(accountDigits),
                     "Account number must contain at least 6 digits")
            \o ErrIf(scannerName = <<>>, "Scanner Name is required")
            \o (IF electricityBill = Null THEN <<"Amount (Bill) is required">>
                ELSE ErrIf(IsNaN(electricityBill) \/ LessThan(electricityBill, MinBillAmount),
                           "Bill amount must be at least 50"))
            \o ErrIf(amountDue # Null /\ IsNaN(amountDue), "Amount Due must be a valid number")
            \o ErrIf(totalSales # Null /\ IsNaN(totalSales), "Total Sales must be a valid number")
        errors == IF collected = <<>> THEN <<>> ELSE <<Head(collected)>>
    IN  [errors |-> errors,
         data |-> [transactionRef |-> transactionRef,
                   accountNumber |-> accountNumber,
                   customerName |-> customerName,
                   scannerName |-> scannerName,
                   date |-> date,
                   company |-> company,
                   electricityBill |-> electricityBill,
                   amountDue |-> IF IsNaN(amountDue) THEN Null ELSE amountDue,
                   totalSales |-> IF IsNaN(totalSales) THEN Null ELSE totalSales]]

validateOcrPayload(payload) ==
    LET transactionRef == normalizeTransactionRef(payload.transactionRef)
        accountNumber == normalizeAccountNumber(payload.accountNumber)
        customerName == normalizeText(payload.customerName)
        scannerName == normalizeText(payload.scannerName)
        date == normalizeText(payload.date)
        company == normalizeText(payload.company)
        electricityBill == parseMoney(payload.electricityBill)
        amountDue == parseMoney(payload.amountDue)
        totalSales == parseMoney(payload.totalSales)
        accountDigits == StripLeadingB(accountNumber)
        errors ==
            ErrIf(transactionRef = <<>>, "Transaction Reference is required")
            \o ErrIf(transactionRef # <<>> /\ countDigits(transactionRef) < MinTransactionDigits,
                     "Transaction reference must have at least 15 digits")
            \o ErrIf(date = <<>>, "Date is required")
            \o ErrIf(customerName = <<>>, "Customer Name is required")
            \o ErrIf(customerName # <<>> /\ ~IsValidCustomerName(customerName),
                     "Customer Name must contain valid text only")
            \o ErrIf(accountNumber = <<>>, "Account Number is required")
            \o ErrIf(accountNumber # <<>> /\ ~IsAccountDigits(accountDigits),
                     "Account number must contain at least 6 digits")
            \o ErrIf(scannerName = <<>>, "Scanner Name is required")
            \o (IF electricityBill = Null THEN <<"Amount (Bill) is required">>
                ELSE ErrIf(IsNaN(electricityBill) \/ LessThan(electricityBill, MinBillAmount),
                           "Bill amount must be at least 50"))
            \o ErrIf(amountDue # Null /\ IsNaN(amountDue), "Amount Due must be a valid number")
            \o ErrIf(totalSales # Null /\ IsNaN(totalSales), "Total Sales must be a valid number")
    IN  [errors |-> errors,
         data |-> [transactionRef |-> transactionRef,
                   accountNumber |-> accountNumber,
                   customerName |-> customerName,
                   scannerName |-> scannerName,
                   date |-> date,
                   company |-> company,
                   electricityBill |-> electricityBill,
                   amountDue |-> IF IsNaN(amountDue) THEN Null ELSE amountDue,
                   totalSales |-> IF IsNaN(totalSales) THEN Null ELSE totalSales]]

(***************************************************************************)
(* Storage conversions.                                                    *)
(***************************************************************************)
\* A JavaScript number bound to a DECIMAL(10, 2) column: rounded half away
\* from zero to hundredths; null stays NULL.
ToDecimal(n) ==
    IF n.kind # "num" THEN Null
    ELSE LET d(i) == IF i <= Len(n.fr) THEN DigitValue(n.fr[i]) ELSE 0
         IN  [kind |-> "dec", neg |-> n.neg,
              cents |-> n.ip * 100 + d(1) * 10 + d(2) + (IF d(3) >= 5 THEN 1 ELSE 0)]

\* UPPER(REPLACE(account_number, " ", ""))
SqlAccountKey(accountNumber) == toUpperCase(SelectSeq(accountNumber, LAMBDA c : c # " "))

(***************************************************************************)
(* Signature payloads and file names.  The literal prefixes are single     *)
(* tokens of the sequence.                                                 *)
(***************************************************************************)
PngDataUrlPrefix == "data:image/png;base64,"
JpegDataUrlPrefix == "data:image/jpeg;base64,"

\* /^data:image\/png;base64,/ of the route guard
HasPngPrefix(signature) == signature # <<>> /\ Head(signature) = PngDataUrlPrefix

\* /^data:image\/png;base64,(.+)$/ of saveSignatureToSharedFolder
MatchesPngDataUrl(signature) ==
    /\ HasPngPrefix(signature)
    /\ Len(signature) > 1
    /\ \A i \in 2..Len(signature) : signature[i] # "\n"

SignaturePrefix == <<"s", "i", "g", "n", "a", "t", "u", "r", "e", "_">>
PngSuffix == <<".", "p", "n", "g">>

\* `signature_${Date.now()}_${random}.png`: the n-th generated name; distinct
\* calls yield distinct names.
GeneratedFilename(n) == SignaturePrefix \o <<Digits[n + 1]>> \o PngSuffix

isSafeSignatureFilename(filename) ==
    /\ filename # <<>>
    /\ ~includes(filename, <<".", ".">>)
    /\ ~includes(filename, <<"/">>)
    /\ ~includes(filename, <<"\\">>)

\* a plausible slip: the prefix signature_ is not tested
IsSweepCandidateBySuffix(fileName) ==
    /\ isSafeSignatureFilename(fileName)
    /\ endsWith(toLowerCase(fileName), PngSuffix)

\* The name tests of the sweep loop: safe, ends with .png (any case),
\* starts with signature_.
IsSweepCandidate(fileName) ==
    /\ isSafeSignatureFilename(fileName)
    /\ endsWith(toLowerCase(fileName), PngSuffix)
    /\ startsWith(fileName, SignaturePrefix)

InitialFiles == { <<"n", "o", "t", "e", "s", ".", "t", "x", "t">> }

(***************************************************************************)
(* Request bodies submitted by clients.                                    *)
(***************************************************************************)
Acct1 == <<"B", "1", "2", "3", "4", "5", "6">>
Acct1Spaced == <<" ", "b", "1", "2", " ", "3", "4", "5", "6">>
Acct2 == <<"B", "6", "5", "4", "3", "2", "1">>
AcctShort == <<"B", "1", "2", "3", "4", "5">>
Tx1 == <<"1", "2", "3", "4", "5", "6", "7", "8", "9", "0", "1", "2", "3", "4", "5">>
Tx1Dashed == <<"1", "2", "3", "4", "5", "-", "6", "7", "8", "9", "0", "-", "1", "2", "3", "4", "5">>
Tx2 == <<"5", "4", "3", "2", "1", "0", "9", "8", "7", "6", "5", "4", "3", "2", "1">>
Bill50 == <<"5", "0", ".", "0", "0">>
Bill4999 == <<"4", "9", ".", "9", "9">>
PngSignature == <<PngDataUrlPrefix, "i", "V">>

BodyA ==
    [transactionRef |-> Tx1, accountNumber |-> Acct1,
     customerName |-> <<"A", "n", "a">>, scannerName |-> <<"J", "o">>,
     date |-> <<"3", "/", "1", "/", "2", "0", "2", "6">>, company |-> <<>>,
     electricityBill |-> Bill50, amountDue |-> <<>>, totalSales |-> <<>>,
     signature |-> PngSignature]
\* same account as BodyA up to case and spacing, another reference
BodyA2 == [BodyA EXCEPT !.accountNumber = Acct1Spaced, !.transactionRef = Tx2]
\* another account, same reference as BodyA up to separators
BodyB == [BodyA EXCEPT !.accountNumber = Acct2, !.transactionRef = Tx1Dashed]
\* two rule violations
BodyInvalid == [BodyA EXCEPT !.accountNumber = AcctShort, !.electricityBill = Bill4999]
BodyNoSignature == [BodyA EXCEPT !.signature = <<>>]
BodyJpegSignature == [BodyA EXCEPT !.signature = <<JpegDataUrlPrefix, "i", "V">>]
BodyEmptyPng == [BodyA EXCEPT !.signature = <<PngDataUrlPrefix>>]

CreateBodies ==
    {BodyA, BodyA2, BodyB, BodyInvalid, BodyNoSignature, BodyJpegSignature, BodyEmptyPng}
UpdateBodies == {BodyA, BodyA2, BodyB, BodyInvalid}

\* the bodies the dashboard's handleSave sends for a POST and for a PUT
\* (DashboardPayload below): the texts of its table's cells, which are those
\* of the listed records, the name typed into a cell, or blank
Acct3 == <<"B", "1", "1", "1", "1", "1", "1">>
Tx3 == <<"9", "9", "9", "9", "9", "0", "0", "0", "0", "0", "9", "9", "9", "9", "9">>
EditedName == <<"B", "e", "n">>
DashboardBodies ==
    {[BodyA EXCEPT !.transactionRef = referenceNo, !.accountNumber = accountNumber,
                   !.customerName = accountName, !.scannerName = scannerName,
                   !.electricityBill = amount, !.date = <<>>, !.signature = <<>>] :
        referenceNo \in {<<>>, Tx1, Tx3},
        accountNumber \in {<<>>, Acct1, Acct3},
        accountName \in {<<>>, BodyA.customerName, EditedName},
        scannerName \in {<<>>, BodyA.scannerName},
        amount \in {<<>>, Bill50}}

\* validateOcrPayload of every body a client submits
Validated ==
    [body \in CreateBodies \cup UpdateBodies \cup DashboardBodies |-> validateOcrPayload(body)]

(***************************************************************************)
(* State.                                                                  *)
(***************************************************************************)
VARIABLES
    rows,        \* the ocr_data table: a set of row records
    nextId,      \* AUTO_INCREMENT counter of ocr_data.id
    files,       \* names of the files present in signatureDir
    locks,       \* named locks held in the database: pairs <<lockKey, request>>
    generated,   \* number of signature file names generated so far
    submitted,   \* number of requests and cleanup runs started so far
    req,         \* per request slot: the handler's locals and position
    sweep,       \* the cleanup task's locals and position
    dashboard    \* the admin dashboard page: its React state and handleSave's position

vars == <<rows, nextId, files, locks, generated, submitted, req, sweep, dashboard>>

Requests == 1..NumRequests

connectionLimit == 10

NoResponse == [status |-> 0, ok |-> FALSE, code |-> "", details |-> <<>>]
Response(status, ok, code, details) ==
    [status |-> status, ok |-> ok, code |-> code, details |-> details]

IdleRequest ==
    [kind |-> "none", pc |-> "idle", body |-> BodyA, id |-> 0,
     data |-> Validated[BodyA].data, conn |-> FALSE, lockKey |-> <<>>,
     filename |-> <<>>, attempt |-> 0, lastError |-> "", warning |-> "",
     firstTimedOut |-> FALSE, lateWrites |-> 0,
     signatureName |-> <<>>,
     insertId |-> 0, response |-> NoResponse, concurrentWith |-> {},
     accountExisted |-> FALSE,
     affectedRows |-> 0, refCount |-> 0,
     signatureDeleted |-> FALSE, signatureDeleteError |-> FALSE,
     rowLimit |-> 0, listed |-> <<>>]

\* afterCleanRun is history: the run before this one went through its whole
\* loop and counted no error
IdleSweep ==
    [pc |-> "idle", referencedFiles |-> {}, filesInDir |-> {},
     stats |-> [scanned |-> 0, deleted |-> 0, skipped |-> 0, errors |-> 0],
     afterCleanRun |-> FALSE]

\* the dashboard page before it is opened
\* toSend and sent are the fetches of the Promise.all handleSave awaits: not
\* yet issued, and issued (by request slot).  rejected, savedTable,
\* savedDeleted and leftBySave are history: a DELETE, POST or PUT of the save
\* was answered with ok false; the table and the deleted ids as they were
\* when Save was clicked; edit mode was left by handleSave
NoDashboard ==
    [pc |-> "closed", isEditMode |-> FALSE, tableData |-> {}, deletedIds |-> {},
     toSend |-> {}, sent |-> {}, rejected |-> FALSE,
     savedTable |-> {}, savedDeleted |-> {}, leftBySave |-> FALSE]

Init ==
    /\ rows = {}
    /\ nextId = 1
    /\ files = InitialFiles
    /\ locks = {}
    /\ generated = 0
    /\ submitted = 0
    /\ req = [r \in Requests |-> IdleRequest]
    /\ sweep = IdleSweep
    /\ dashboard = NoDashboard

\* connections checked out of the pool
ConnsInUse ==
    Cardinality({r \in DOMAIN req : req[r].conn}) + (IF sweep.pc = "idle" THEN 0 ELSE 1)

\* a plausible slip: the lock is keyed by the account number as received
LockKeyOfReceivedAccount(r) == <<"ocr-account:">> \o req[r].body.accountNumber

\* `ocr-account:${accountNumber}` of the validated (normalized) account number
LockKeyOf(r) == <<"ocr-account:">> \o req[r].data.accountNumber

\* the catch block of the create and update handlers
CatchResponse(errCode) ==
    IF errCode = "ER_DUP_ENTRY"
    THEN Response(409, FALSE, "DUPLICATE_ACCOUNT_NUMBER", <<>>)
    ELSE Response(500, FALSE, "", <<>>)

\* errors a query of the store can throw; ocr_data has no unique key besides
\* its AUTO_INCREMENT id, so no statement of the handlers raises ER_DUP_ENTRY
StoreErrors == {"PROTOCOL_CONNECTION_LOST"}

Respond(r, resp, nextPc) ==
    req' = [req EXCEPT ![r].response = resp, ![r].pc = nextPc]

(***************************************************************************)
(* POST /api/ocr-data up to its first await: signature guards, validation. *)
(***************************************************************************)
InFlight == {q \in DOMAIN req : req[q].pc \notin {"idle", "done"}}

\* concurrentWith and accountExisted are history: the submissions in flight
\* when this one arrived (a slot that starts a new submission is forgotten
\* by the others), and whether a record other than the one addressed held
\* its account number then
StartedWith(r, kind, body, id, data) ==
    [IdleRequest EXCEPT !.kind = kind, !.body = body, !.id = id,
                        !.data = data,
                        !.concurrentWith = InFlight \ {r},
                        !.accountExisted =
                            \E row \in rows : /\ row.id # id
                                              /\ row.accountNumber = data.accountNumber]

StartedRequest(r, kind, body, id) == StartedWith(r, kind, body, id, Validated[body].data)

\* the handler run to its first await: it has answered with this response, or
\* (NoResponse) it is at pc
AnsweredOrAt(started, response, pc) ==
    IF response = NoResponse
    THEN [started EXCEPT !.pc = pc]
    ELSE [started EXCEPT !.pc = "done", !.response = response]

Arrive(r, started) ==
    req' = [q \in DOMAIN req |->
              IF q = r THEN started ELSE [req[q] EXCEPT !.concurrentWith = @ \ {r}]]

\* a plausible slip: the validation errors are computed and not looked at
SubmitCreateIgnoringErrors(r) ==
    /\ req[r].pc \in {"idle", "done"}
    /\ submitted < MaxSubmissions
    /\ submitted' = submitted + 1
    /\ \E body \in CreateBodies :
        LET started == StartedRequest(r, "create", body, 0)
        IN  Arrive(r,
                IF body.signature = <<>>
                THEN [started EXCEPT !.pc = "done",
                        !.response = Response(400, FALSE, "SIGNATURE_REQUIRED", <<>>)]
                ELSE IF ~HasPngPrefix(body.signature)
                THEN [started EXCEPT !.pc = "done",
                        !.response = Response(400, FALSE, "INVALID_SIGNATURE_FORMAT", <<>>)]
                ELSE [started EXCEPT !.pc = "getConnection"])
    /\ UNCHANGED <<rows, nextId, files, locks, generated, sweep, dashboard>>

\* the handler of a POST with this body, run to its first await
CreateRejection(body, errors) ==
    IF body.signature = <<>>
    THEN Response(400, FALSE, "SIGNATURE_REQUIRED", <<>>)
    ELSE IF ~HasPngPrefix(body.signature)
    THEN Response(400, FALSE, "INVALID_SIGNATURE_FORMAT", <<>>)
    ELSE IF errors # <<>>
    THEN Response(400, FALSE, "VALIDATION_ERROR", errors)
    ELSE NoResponse

CreateArrival(r, body) ==
    AnsweredOrAt(StartedRequest(r, "create", body, 0),
                 CreateRejection(body, Validated[body].errors), "getConnection")

SubmitCreate(r) ==
    /\ req[r].pc \in {"idle", "done"}
    /\ submitted < MaxSubmissions
    /\ submitted' = submitted + 1
    /\ \E body \in CreateBodies : Arrive(r, CreateArrival(r, body))
    /\ UNCHANGED <<rows, nextId, files, locks, generated, sweep, dashboard>>

(***************************************************************************)
(* PUT /api/ocr-data/:id up to its first await: id guard, validation.      *)
(***************************************************************************)
\* the handler of a PUT with this id and body, run to its first await
UpdateRejection(id, errors) ==
    IF id = 0
    THEN Response(400, FALSE, "", <<>>)
    ELSE IF errors # <<>>
    THEN Response(400, FALSE, "VALIDATION_ERROR", errors)
    ELSE NoResponse

UpdateArrival(r, body, id) ==
    AnsweredOrAt(StartedRequest(r, "update", body, id),
                 UpdateRejection(id, Validated[body].errors), "getConnection")

SubmitUpdate(r) ==
    /\ req[r].pc \in {"idle", "done"}
    /\ submitted < MaxSubmissions
    /\ submitted' = submitted + 1
    /\ \E body \in UpdateBodies, id \in 0..nextId : Arrive(r, UpdateArrival(r, body, id))
    /\ UNCHANGED <<rows, nextId, files, locks, generated, sweep, dashboard>>

(***************************************************************************)
(* Steps shared by the create and update handlers, one per await.          *)
(***************************************************************************)
GetConnection(r) ==
    /\ req[r].pc = "getConnection"
    /\ \/ /\ ConnsInUse < connectionLimit
          /\ req' = [req EXCEPT ![r].conn = TRUE, ![r].pc = "ensureOcrTable"]
       \/ \E err \in StoreErrors : Respond(r, CatchResponse(err), "finally")
    /\ UNCHANGED <<rows, nextId, files, locks, generated, submitted, sweep, dashboard>>

EnsureOcrTable(r) ==
    /\ req[r].pc = "ensureOcrTable"
    /\ req' = [req EXCEPT ![r].pc = "acquireAccountLock"]
    /\ UNCHANGED <<rows, nextId, files, locks, generated, submitted, sweep, dashboard>>

\* a plausible slip: the lock is taken without excluding another holder
AcquireAccountLockShared(r) ==
    LET lockKey == LockKeyOf(r) IN
    /\ req[r].pc = "acquireAccountLock"
    /\ locks' = locks \cup {<<lockKey, r>>}
    /\ req' = [req EXCEPT ![r].lockKey = lockKey, ![r].pc = "checkAccountNumber"]
    /\ UNCHANGED <<rows, nextId, files, generated, submitted, sweep, dashboard>>

\* SELECT GET_LOCK(key, 5): granted when no other session holds the name
AcquireAccountLock(r) ==
    LET lockKey == LockKeyOf(r) IN
    /\ req[r].pc = "acquireAccountLock"
    /\ ~\E l \in locks : l[1] = lockKey
    /\ locks' = locks \cup {<<lockKey, r>>}
    /\ req' = [req EXCEPT ![r].lockKey = lockKey, ![r].pc = "checkAccountNumber"]
    /\ UNCHANGED <<rows, nextId, files, generated, submitted, sweep, dashboard>>

\* a plausible slip: the acquired flag is not tested and the handler goes on
AccountLockTimeoutIgnored(r) ==
    LET lockKey == LockKeyOf(r) IN
    /\ req[r].pc = "acquireAccountLock"
    /\ \E l \in locks : l[1] = lockKey
    /\ req' = [req EXCEPT ![r].lockKey = lockKey, ![r].pc = "checkAccountNumber"]
    /\ UNCHANGED <<rows, nextId, files, locks, generated, submitted, sweep, dashboard>>

\* GET_LOCK returns 0 after waiting 5 seconds on a name another session holds
AccountLockTimeout(r) ==
    LET lockKey == LockKeyOf(r) IN
    /\ req[r].pc = "acquireAccountLock"
    /\ \E l \in locks : l[1] = lockKey
    /\ Respond(r, Response(429, FALSE, "ACCOUNT_LOCK_TIMEOUT", <<>>), "finally")
    /\ UNCHANGED <<rows, nextId, files, locks, generated, submitted, sweep, dashboard>>

\* a plausible slip: the update checks scan the whole table, as on create
OtherRowsIncludingOwn(r) == rows

\* rows another statement must not collide with: all on create, all but
\* the record's own id on update
OtherRows(r) ==
    IF req[r].kind = "update" THEN {row \in rows : row.id # req[r].id} ELSE rows

\* a plausible slip: the transaction reference is looked up first
CheckAccountNumberAfterTransactionRef(r) ==
    /\ req[r].pc = "checkAccountNumber"
    /\ IF \E row \in OtherRows(r) : row.transactionRef = req[r].data.transactionRef
       THEN Respond(r, Response(409, FALSE, "DUPLICATE_TRANSACTION_REFERENCE", <<>>), "finally")
       ELSE IF \E row \in OtherRows(r) : SqlAccountKey(row.accountNumber) = req[r].data.accountNumber
       THEN Respond(r, Response(409, FALSE, "DUPLICATE_ACCOUNT_NUMBER", <<>>), "finally")
       ELSE req' = [req EXCEPT ![r].pc = "checkTransactionRef"]
    /\ UNCHANGED <<rows, nextId, files, locks, generated, submitted, sweep, dashboard>>

\* a plausible slip: the query is given the account number as received
CheckAccountNumberAsReceived(r) ==
    /\ req[r].pc = "checkAccountNumber"
    /\ IF \E row \in OtherRows(r) : SqlAccountKey(row.accountNumber) = req[r].body.accountNumber
       THEN Respond(r, Response(409, FALSE, "DUPLICATE_ACCOUNT_NUMBER", <<>>), "finally")
       ELSE req' = [req EXCEPT ![r].pc = "checkTransactionRef"]
    /\ UNCHANGED <<rows, nextId, files, locks, generated, submitted, sweep, dashboard>>

CheckAccountNumber(r) ==
    /\ req[r].pc = "checkAccountNumber"
    /\ IF \E row \in OtherRows(r) : SqlAccountKey(row.accountNumber) = req[r].data.accountNumber
       THEN Respond(r, Response(409, FALSE, "DUPLICATE_ACCOUNT_NUMBER", <<>>), "finally")
       ELSE req' = [req EXCEPT ![r].pc = "checkTransactionRef"]
    /\ UNCHANGED <<rows, nextId, files, locks, generated, submitted, sweep, dashboard>>

\* a plausible slip: the failure is logged and the handler goes on to INSERT
SignatureSaveFailedNoReturn(r, warning) ==
    req' = [req EXCEPT ![r].lastError = "", ![r].warning = warning, ![r].pc = "insert"]

\* saveSignatureToSharedFolder returned no file name: the create handler
\* answers SIGNATURE_SAVE_FAILED with the warning and returns
SignatureSaveFailed(r, warning) ==
    req' = [req EXCEPT ![r].lastError = "", ![r].warning = warning,
                       ![r].response = Response(503, FALSE, "SIGNATURE_SAVE_FAILED", <<warning>>),
                       ![r].pc = "finally"]

\* on create the continuation enters saveSignatureToSharedFolder, whose
\* format test runs before its first await
CheckTransactionRef(r) ==
    /\ req[r].pc = "checkTransactionRef"
    /\ IF \E row \in OtherRows(r) : row.transactionRef = req[r].data.transactionRef
       THEN Respond(r, Response(409, FALSE, "DUPLICATE_TRANSACTION_REFERENCE", <<>>), "finally")
       ELSE IF req[r].kind = "update"
       THEN req' = [req EXCEPT ![r].pc = "update"]
       ELSE IF ~MatchesPngDataUrl(req[r].body.signature)
       THEN SignatureSaveFailed(r, "Invalid signature format")
       ELSE req' = [req EXCEPT ![r].pc = "mkdir"]
    /\ UNCHANGED <<rows, nextId, files, locks, generated, submitted, sweep, dashboard>>

\* a pending query rejects: the handler's catch block answers
QueryThrows(r) ==
    /\ req[r].pc \in {"ensureOcrTable", "acquireAccountLock", "checkAccountNumber",
                      "checkTransactionRef", "insert", "update"}
    /\ \E err \in StoreErrors : Respond(r, CatchResponse(err), "finally")
    /\ UNCHANGED <<rows, nextId, files, locks, generated, submitted, sweep, dashboard>>

\* the finally block: RELEASE_LOCK when a lock key was recorded, then the
\* connection goes back to the pool
\* a plausible slip: the lock is released on the success path only
ReleaseHeldOnSuccess(r) ==
    {l \in locks : ~(req[r].response.ok /\ req[r].lockKey # <<>> /\ l = <<req[r].lockKey, r>>)}

ReleaseHeld(r) == {l \in locks : ~(req[r].conn /\ req[r].lockKey # <<>> /\ l = <<req[r].lockKey, r>>)}

Finally(r) ==
    /\ req[r].pc = "finally"
    /\ locks' = ReleaseHeld(r)
    /\ req' = [req EXCEPT ![r].conn = FALSE, ![r].pc = "done"]
    /\ UNCHANGED <<rows, nextId, files, generated, submitted, sweep, dashboard>>

(***************************************************************************)
(* saveSignatureToSharedFolder after its format test, and the INSERT.      *)
(***************************************************************************)
\* fs.promises.mkdir under runWithTimeout; on success the file name is
\* generated and the write loop starts with attempt 1
Mkdir(r) ==
    /\ req[r].pc = "mkdir"
    /\ \/ /\ generated' = generated + 1
          /\ req' = [req EXCEPT ![r].filename = GeneratedFilename(generated + 1),
                                ![r].attempt = 1, ![r].pc = "writeFile"]
       \/ /\ SignatureSaveFailed(r, "Signature directory check failed")
          /\ UNCHANGED generated
    /\ UNCHANGED <<rows, nextId, files, locks, submitted, sweep, dashboard>>

\* one fs.promises.writeFile attempt under runWithTimeout (at most 2)
MaxWriteAttempts == 2

\* the message of runWithTimeout's timer for write attempt n
WriteTimedOut(attempt) ==
    IF attempt = 1 THEN "Signature write attempt 1 timed out"
    ELSE "Signature write attempt 2 timed out"

\* what the catch of one attempt receives: the rejection of writeFile itself
\* or the timer's error
WriteErrors(attempt) == {"EIO: i/o error, write", WriteTimedOut(attempt)}

\* a plausible slip: the first error is kept (lastError = lastError || err)
WriteFileReportingFirstError(r) ==
    /\ req[r].pc = "writeFile"
    /\ \/ /\ files' = files \cup {req[r].filename}
          /\ req' = [req EXCEPT ![r].signatureName = req[r].filename,
                                ![r].lastError = "", ![r].pc = "insert"]
       \/ /\ \E err \in WriteErrors(req[r].attempt) :
                LET kept == IF req[r].lastError # "" THEN req[r].lastError ELSE err IN
                IF req[r].attempt < MaxWriteAttempts
                THEN req' = [req EXCEPT ![r].attempt = @ + 1, ![r].lastError = kept]
                ELSE SignatureSaveFailed(r, kept)
          /\ UNCHANGED files
    /\ UNCHANGED <<rows, nextId, locks, generated, submitted, sweep, dashboard>>

\* a plausible slip: a failed write is retried without counting the attempts
WriteFileRetryingForever(r) ==
    /\ req[r].pc = "writeFile"
    /\ \/ /\ files' = files \cup {req[r].filename}
          /\ req' = [req EXCEPT ![r].signatureName = req[r].filename, ![r].pc = "insert"]
       \/ /\ req' = [req EXCEPT ![r].attempt = IF @ < MaxWriteAttempts THEN @ + 1 ELSE 1]
          /\ UNCHANGED files
    /\ UNCHANGED <<rows, nextId, locks, generated, submitted, sweep, dashboard>>

\* lastError is the loop's variable; it is dead once the function returns.
\* firstTimedOut: the timer of attempt 1 fired while its writeFile was still
\* in flight (runWithTimeout does not cancel it); once the file is written
\* that write can only put the same bytes at the same path again
WriteFile(r) ==
    /\ req[r].pc = "writeFile"
    /\ \/ /\ files' = files \cup {req[r].filename}
          /\ req' = [req EXCEPT ![r].signatureName = req[r].filename,
                                ![r].lastError = "", ![r].firstTimedOut = FALSE,
                                ![r].pc = "insert"]
       \/ /\ \E err \in WriteErrors(req[r].attempt) :
                IF req[r].attempt < MaxWriteAttempts
                THEN req' = [req EXCEPT ![r].attempt = @ + 1, ![r].lastError = err,
                                        ![r].firstTimedOut = (err = WriteTimedOut(1))]
                ELSE SignatureSaveFailed(r, err)
          /\ UNCHANGED files
    /\ UNCHANGED <<rows, nextId, locks, generated, submitted, sweep, dashboard>>

\* the writes of r whose timer fired while writeFile was still in flight
TimedOutWrites(r) ==
    (IF req[r].firstTimedOut THEN 1 ELSE 0)
    + (IF req[r].warning = WriteTimedOut(MaxWriteAttempts) THEN 1 ELSE 0)

\* a writeFile that lost the race against its timer completes afterwards
LateWrite(r) ==
    /\ req[r].lateWrites < TimedOutWrites(r)
    /\ files' = files \cup {req[r].filename}
    /\ req' = [req EXCEPT ![r].lateWrites = @ + 1]
    /\ UNCHANGED <<rows, nextId, locks, generated, submitted, sweep, dashboard>>

NewRow(id, data, signatureName) ==
    [id |-> id,
     transactionRef |-> data.transactionRef,
     accountNumber |-> data.accountNumber,
     customerName |-> data.customerName,
     scannerName |-> data.scannerName,
     company |-> data.company,
     date |-> data.date,
     electricityBill |-> ToDecimal(data.electricityBill),
     amountDue |-> ToDecimal(data.amountDue),
     totalSales |-> ToDecimal(data.totalSales),
     signatureName |-> signatureName,
     createdAt |-> id]

Insert(r) ==
    /\ req[r].pc = "insert"
    /\ rows' = rows \cup {NewRow(nextId, req[r].data, req[r].signatureName)}
    /\ nextId' = nextId + 1
    /\ req' = [req EXCEPT ![r].insertId = nextId,
                          ![r].response = Response(200, TRUE, "", <<>>),
                          ![r].pc = "finally"]
    /\ UNCHANGED <<files, locks, generated, submitted, sweep, dashboard>>

(***************************************************************************)
(* The UPDATE of PUT /api/ocr-data/:id.                                    *)
(***************************************************************************)
\* a plausible slip: created_at is stamped again by the UPDATE
UpdatedRowStampingCreatedAt(row, data) ==
    [row EXCEPT !.transactionRef = data.transactionRef,
                !.accountNumber = data.accountNumber,
                !.customerName = data.customerName,
                !.scannerName = data.scannerName,
                !.company = data.company,
                !.date = data.date,
                !.electricityBill = ToDecimal(data.electricityBill),
                !.amountDue = ToDecimal(data.amountDue),
                !.totalSales = ToDecimal(data.totalSales),
                !.createdAt = @ + 1]

\* a plausible slip: the UPDATE also binds signature_name, which the body lacks
UpdatedRowClearingSignature(row, data) ==
    [row EXCEPT !.transactionRef = data.transactionRef,
                !.accountNumber = data.accountNumber,
                !.customerName = data.customerName,
                !.scannerName = data.scannerName,
                !.electricityBill = ToDecimal(data.electricityBill),
                !.signatureName = <<>>]

UpdatedRow(row, data) ==
    [row EXCEPT !.transactionRef = data.transactionRef,
                !.accountNumber = data.accountNumber,
                !.customerName = data.customerName,
                !.scannerName = data.scannerName,
                !.company = data.company,
                !.date = data.date,
                !.electricityBill = ToDecimal(data.electricityBill),
                !.amountDue = ToDecimal(data.amountDue),
                !.totalSales = ToDecimal(data.totalSales)]

Update(r) ==
    /\ req[r].pc = "update"
    /\ rows' = {IF row.id = req[r].id THEN UpdatedRow(row, req[r].data) ELSE row : row \in rows}
    /\ Respond(r, Response(200, TRUE, "", <<>>), "finally")
    /\ UNCHANGED <<nextId, files, locks, generated, submitted, sweep, dashboard>>

(***************************************************************************)
(* runSignatureCleanupTask / cleanupOrphanSignatureFiles.                  *)
(***************************************************************************)
\* getConnection, ensureOcrTable and the SELECT of the referenced names; a
\* rejection of any of them ends the run (runSignatureCleanupTask returns null)
\* the run that has just ended returned its stats with no error counted
\* (the directory is never empty, so a run that returned has looked at a file)
ReturnedClean ==
    /\ sweep.pc = "idle"
    /\ sweep.stats.errors = 0
    /\ sweep.stats.scanned + sweep.stats.skipped > 0

SweepQuery ==
    /\ sweep.pc = "idle"
    /\ ConnsInUse < connectionLimit
    /\ \/ sweep' = [IdleSweep EXCEPT
                      !.pc = "readdir",
                      !.afterCleanRun = ReturnedClean,
                      !.referencedFiles =
                          {row.signatureName : row \in
                              {x \in rows : x.signatureName # <<>>
                                            /\ isSafeSignatureFilename(x.signatureName)}}]
       \/ sweep' = IdleSweep
    /\ UNCHANGED <<rows, nextId, files, locks, generated, req, dashboard>>

\* a run of the task, counted among the bounded number of submissions
SweepSelect ==
    /\ submitted < MaxSubmissions
    /\ submitted' = submitted + 1
    /\ SweepQuery

\* a plausible slip: the task runs at boot and is never scheduled again
SweepAtBootOnly ==
    /\ submitted = 0
    /\ submitted' = 1
    /\ SweepQuery

\* setInterval: the task runs again and again for as long as the server runs
SweepSelectRecurring ==
    /\ SweepQuery
    /\ UNCHANGED submitted

SweepReaddir ==
    /\ sweep.pc = "readdir"
    /\ \/ sweep' = [sweep EXCEPT !.pc = "loop", !.filesInDir = files]
       \/ sweep' = [sweep EXCEPT !.pc = "idle", !.stats.errors = 1]
    /\ UNCHANGED <<rows, nextId, files, locks, generated, submitted, req, dashboard>>

\* a plausible slip: a failed unlink is logged and not counted
SweepFileErrorsUncounted ==
    /\ sweep.pc = "loop"
    /\ \E fileName \in sweep.filesInDir :
        LET rest == [sweep EXCEPT !.filesInDir = @ \ {fileName}] IN
        IF ~IsSweepCandidate(fileName)
        THEN /\ sweep' = [rest EXCEPT !.stats.skipped = @ + 1]
             /\ UNCHANGED files
        ELSE IF fileName \in sweep.referencedFiles
        THEN /\ sweep' = [rest EXCEPT !.stats.scanned = @ + 1]
             /\ UNCHANGED files
        ELSE IF fileName \in files
        THEN \/ /\ files' = files \ {fileName}
                /\ sweep' = [rest EXCEPT !.stats.scanned = @ + 1, !.stats.deleted = @ + 1]
             \/ /\ UNCHANGED files
                /\ sweep' = [rest EXCEPT !.stats.scanned = @ + 1]
        ELSE /\ sweep' = [rest EXCEPT !.stats.scanned = @ + 1]
             /\ UNCHANGED files
    /\ UNCHANGED <<rows, nextId, locks, generated, submitted, req, dashboard>>

\* one iteration of the loop over filesInDir
SweepFile ==
    /\ sweep.pc = "loop"
    /\ \E fileName \in sweep.filesInDir :
        LET rest == [sweep EXCEPT !.filesInDir = @ \ {fileName}] IN
        IF ~IsSweepCandidate(fileName)
        THEN /\ sweep' = [rest EXCEPT !.stats.skipped = @ + 1]
             /\ UNCHANGED files
        ELSE IF fileName \in sweep.referencedFiles
        THEN /\ sweep' = [rest EXCEPT !.stats.scanned = @ + 1]
             /\ UNCHANGED files
        ELSE IF fileName \in files
        THEN \/ /\ files' = files \ {fileName}
                /\ sweep' = [rest EXCEPT !.stats.scanned = @ + 1, !.stats.deleted = @ + 1]
             \/ /\ UNCHANGED files
                /\ sweep' = [rest EXCEPT !.stats.scanned = @ + 1, !.stats.errors = @ + 1]
        ELSE \* unlink rejects with ENOENT: not counted
             /\ sweep' = [rest EXCEPT !.stats.scanned = @ + 1]
             /\ UNCHANGED files
    /\ UNCHANGED <<rows, nextId, locks, generated, submitted, req, dashboard>>

SweepReturn ==
    /\ sweep.pc = "loop"
    /\ sweep.filesInDir = {}
    /\ sweep' = [sweep EXCEPT !.pc = "idle"]
    /\ UNCHANGED <<rows, nextId, files, locks, generated, submitted, req, dashboard>>

(***************************************************************************)
(* DELETE /api/ocr-data/:id, one step per await.                           *)
(***************************************************************************)
\* the id guard; the handler then asks the pool for a connection
\* the handler of a DELETE with this id, run to its first await
DeleteArrival(r, id) ==
    AnsweredOrAt(StartedRequest(r, "delete", BodyA, id),
                 IF id = 0 THEN Response(400, FALSE, "", <<>>) ELSE NoResponse,
                 "deleteGetConnection")

SubmitDelete(r) ==
    /\ req[r].pc \in {"idle", "done"}
    /\ submitted < MaxSubmissions
    /\ submitted' = submitted + 1
    /\ \E id \in 0..nextId : Arrive(r, DeleteArrival(r, id))
    /\ UNCHANGED <<rows, nextId, files, locks, generated, sweep, dashboard>>

DeleteGetConnection(r) ==
    /\ req[r].pc = "deleteGetConnection"
    /\ \/ /\ ConnsInUse < connectionLimit
          /\ req' = [req EXCEPT ![r].conn = TRUE, ![r].pc = "selectSignatureName"]
       \/ \E err \in StoreErrors : Respond(r, Response(500, FALSE, "", <<>>), "finally")
    /\ UNCHANGED <<rows, nextId, files, locks, generated, submitted, sweep, dashboard>>

\* SELECT signature_name ... WHERE id = ? LIMIT 1
SelectSignatureName(r) ==
    /\ req[r].pc = "selectSignatureName"
    /\ req' = [req EXCEPT
                 ![r].signatureName =
                     IF \E row \in rows : row.id = req[r].id
                     THEN (CHOOSE row \in rows : row.id = req[r].id).signatureName
                     ELSE <<>>,
                 ![r].pc = "deleteRow"]
    /\ UNCHANGED <<rows, nextId, files, locks, generated, submitted, sweep, dashboard>>

\* the response of a delete that got as far as its DELETE statement
DeleteResponse == Response(200, TRUE, "", <<>>)

\* DELETE FROM ocr_data WHERE id = ?; the reference count is taken only when
\* a row was deleted and it had a signature name
DeleteRow(r) ==
    LET hit == {row \in rows : row.id = req[r].id} IN
    /\ req[r].pc = "deleteRow"
    /\ rows' = rows \ hit
    /\ IF hit # {} /\ req[r].signatureName # <<>>
       THEN req' = [req EXCEPT ![r].affectedRows = Cardinality(hit), ![r].pc = "countReferences"]
       ELSE req' = [req EXCEPT ![r].affectedRows = Cardinality(hit),
                               ![r].response = DeleteResponse, ![r].pc = "finally"]
    /\ UNCHANGED <<nextId, files, locks, generated, submitted, sweep, dashboard>>

\* a plausible slip: the file is unlinked whatever the count says
CountReferencesIgnored(r) ==
    /\ req[r].pc = "countReferences"
    /\ req' = [req EXCEPT
                 ![r].refCount =
                     Cardinality({row \in rows : row.signatureName = req[r].signatureName}),
                 ![r].pc = "unlink"]
    /\ UNCHANGED <<rows, nextId, files, locks, generated, submitted, sweep, dashboard>>

\* SELECT COUNT(*) AS refCount ... WHERE signature_name = ?
CountReferences(r) ==
    LET refCount == Cardinality({row \in rows : row.signatureName = req[r].signatureName}) IN
    /\ req[r].pc = "countReferences"
    /\ IF isSafeSignatureFilename(req[r].signatureName) /\ refCount = 0
       THEN req' = [req EXCEPT ![r].refCount = refCount, ![r].pc = "unlink"]
       ELSE req' = [req EXCEPT ![r].refCount = refCount,
                               ![r].response = DeleteResponse, ![r].pc = "finally"]
    /\ UNCHANGED <<rows, nextId, files, locks, generated, submitted, sweep, dashboard>>

\* a plausible slip: a file that is already gone is reported as an error
UnlinkReportingMissingFile(r) ==
    /\ req[r].pc = "unlink"
    /\ IF req[r].signatureName \in files
       THEN \/ /\ files' = files \ {req[r].signatureName}
               /\ req' = [req EXCEPT ![r].signatureDeleted = TRUE,
                                     ![r].response = DeleteResponse, ![r].pc = "finally"]
            \/ /\ UNCHANGED files
               /\ req' = [req EXCEPT ![r].signatureDeleteError = TRUE,
                                     ![r].response = DeleteResponse, ![r].pc = "finally"]
       ELSE /\ UNCHANGED files
            /\ req' = [req EXCEPT ![r].signatureDeleteError = TRUE,
                                  ![r].response = DeleteResponse, ![r].pc = "finally"]
    /\ UNCHANGED <<rows, nextId, locks, generated, submitted, sweep, dashboard>>

\* fs.promises.unlink: done, ENOENT (ignored), or another error (reported)
Unlink(r) ==
    /\ req[r].pc = "unlink"
    /\ IF req[r].signatureName \in files
       THEN \/ /\ files' = files \ {req[r].signatureName}
               /\ req' = [req EXCEPT ![r].signatureDeleted = TRUE,
                                     ![r].response = DeleteResponse, ![r].pc = "finally"]
            \/ /\ UNCHANGED files
               /\ req' = [req EXCEPT ![r].signatureDeleteError = TRUE,
                                     ![r].response = DeleteResponse, ![r].pc = "finally"]
       ELSE /\ UNCHANGED files
            /\ req' = [req EXCEPT ![r].response = DeleteResponse, ![r].pc = "finally"]
    /\ UNCHANGED <<rows, nextId, locks, generated, submitted, sweep, dashboard>>

\* a query of the delete handler rejects: its catch block answers 500
DeleteQueryThrows(r) ==
    /\ req[r].pc \in {"selectSignatureName", "deleteRow", "countReferences"}
    /\ \E err \in StoreErrors : Respond(r, Response(500, FALSE, "", <<>>), "finally")
    /\ UNCHANGED <<rows, nextId, files, locks, generated, submitted, sweep, dashboard>>

(***************************************************************************)
(* GET /api/ocr-data, one step per await.                                  *)
(***************************************************************************)
DefaultRowLimit == 100

\* the limit query parameter as Number(limit) sees it; an absent or
\* non-numeric parameter gives NaN, which is falsy as 0 is and is drawn as 0
ListLimits == {0, 1, DefaultRowLimit + 1}

\* Number(limit) && Number(limit) > 0 ? Number(limit) : 100
RowLimitOf(limit) == IF limit # 0 /\ limit > 0 THEN limit ELSE DefaultRowLimit

\* the handler of a GET with this limit parameter, run to its first await
ListArrival(r, limit) ==
    [StartedRequest(r, "list", BodyA, 0) EXCEPT
        !.rowLimit = RowLimitOf(limit), !.pc = "listGetConnection"]

SubmitList(r) ==
    /\ req[r].pc \in {"idle", "done"}
    /\ submitted < MaxSubmissions
    /\ submitted' = submitted + 1
    /\ \E limit \in ListLimits : Arrive(r, ListArrival(r, limit))
    /\ UNCHANGED <<rows, nextId, files, locks, generated, sweep, dashboard>>

ListGetConnection(r) ==
    /\ req[r].pc = "listGetConnection"
    /\ \/ /\ ConnsInUse < connectionLimit
          /\ req' = [req EXCEPT ![r].conn = TRUE, ![r].pc = "listEnsureOcrTable"]
       \/ \E err \in StoreErrors : Respond(r, Response(500, FALSE, "", <<>>), "finally")
    /\ UNCHANGED <<rows, nextId, files, locks, generated, submitted, sweep, dashboard>>

ListEnsureOcrTable(r) ==
    /\ req[r].pc = "listEnsureOcrTable"
    /\ req' = [req EXCEPT ![r].pc = "selectRows"]
    /\ UNCHANGED <<rows, nextId, files, locks, generated, submitted, sweep, dashboard>>

\* the rows of the table with an id from lo to hi, by ascending id
RECURSIVE RowsBetween(_, _)
RowsBetween(lo, hi) ==
    IF lo > hi THEN <<>>
    ELSE IF lo = hi
    THEN (IF \E row \in rows : row.id = lo
          THEN <<CHOOSE row \in rows : row.id = lo>> ELSE <<>>)
    ELSE RowsBetween(lo, (lo + hi) \div 2) \o RowsBetween((lo + hi) \div 2 + 1, hi)

\* SELECT ... FROM ocr_data ORDER BY id ASC LIMIT ?
SelectOrderedLimit(limit) ==
    LET ordered == RowsBetween(1, nextId - 1)
    IN  IF Len(ordered) <= limit THEN ordered ELSE SubSeq(ordered, 1, limit)

\* the SELECT and res.json({ ok: true, data: rows })
SelectRows(r) ==
    /\ req[r].pc = "selectRows"
    /\ req' = [req EXCEPT ![r].listed = SelectOrderedLimit(req[r].rowLimit),
                          ![r].response = Response(200, TRUE, "", <<>>),
                          ![r].pc = "finally"]
    /\ UNCHANGED <<rows, nextId, files, locks, generated, submitted, sweep, dashboard>>

\* a query of the list handler rejects: its catch block answers 500
ListQueryThrows(r) ==
    /\ req[r].pc \in {"listEnsureOcrTable", "selectRows"}
    /\ \E err \in StoreErrors : Respond(r, Response(500, FALSE, "", <<>>), "finally")
    /\ UNCHANGED <<rows, nextId, files, locks, generated, submitted, sweep, dashboard>>

(***************************************************************************)
(* Specification.                                                          *)
(***************************************************************************)
\* Spec: concurrent create and update submissions.
Next ==
    \/ \E r \in Requests : SubmitCreate(r)
    \/ \E r \in Requests : SubmitUpdate(r)
    \/ \E r \in Requests : GetConnection(r)
    \/ \E r \in Requests : EnsureOcrTable(r)
    \/ \E r \in Requests : AcquireAccountLock(r)
    \/ \E r \in Requests : AccountLockTimeout(r)
    \/ \E r \in Requests : CheckAccountNumber(r)
    \/ \E r \in Requests : CheckTransactionRef(r)
    \/ \E r \in Requests : QueryThrows(r)
    \/ \E r \in Requests : Mkdir(r)
    \/ \E r \in Requests : WriteFile(r)
    \/ \E r \in Requests : Insert(r)
    \/ \E r \in Requests : Update(r)
    \/ \E r \in Requests : Finally(r)

Spec == Init /\ [][Next]_vars

\* SpecSweep: create submissions running beside the cleanup task.
NextSweep ==
    \/ \E r \in Requests : SubmitCreate(r)
    \/ \E r \in Requests : GetConnection(r)
    \/ \E r \in Requests : EnsureOcrTable(r)
    \/ \E r \in Requests : AcquireAccountLock(r)
    \/ \E r \in Requests : AccountLockTimeout(r)
    \/ \E r \in Requests : CheckAccountNumber(r)
    \/ \E r \in Requests : CheckTransactionRef(r)
    \/ \E r \in Requests : QueryThrows(r)
    \/ \E r \in Requests : Mkdir(r)
    \/ \E r \in Requests : WriteFile(r)
    \/ \E r \in Requests : Insert(r)
    \/ \E r \in Requests : Finally(r)
    \/ SweepSelect
    \/ SweepReaddir
    \/ SweepFile
    \/ SweepReturn

SpecSweep == Init /\ [][NextSweep]_vars

(***************************************************************************)
(* SpecPool: one more create submission than the pool has connections,     *)
(* each followed up to its lock acquisition.  All but the last are for one *)
(* account and arrive one after another, the last is for another account   *)
(* and arrives at any time.                                                *)
(***************************************************************************)
PoolRequests == 1..(connectionLimit + 1)

InitPool ==
    /\ rows = {}
    /\ nextId = 1
    /\ files = InitialFiles
    /\ locks = {}
    /\ generated = 0
    /\ submitted = 0
    /\ req = [r \in PoolRequests |-> IdleRequest]
    /\ sweep = IdleSweep
    /\ dashboard = NoDashboard

\* the submission has its connection and waits for or holds its account lock
AtAccountLock(r) == req[r].conn /\ req[r].pc \in {"acquireAccountLock", "checkAccountNumber"}

\* POST /api/ocr-data with a body that passes the signature guards and the
\* validation, up to its first await
SubmitValidCreate(r, body) ==
    /\ req[r].pc = "idle"
    /\ HasPngPrefix(body.signature)
    /\ Validated[body].errors = <<>>
    /\ Arrive(r, [StartedRequest(r, "create", body, 0) EXCEPT !.pc = "getConnection"])
    /\ UNCHANGED <<rows, nextId, files, locks, generated, submitted, sweep, dashboard>>

NextPool ==
    \/ \E r \in 1..connectionLimit :
          /\ \A q \in 1..(r - 1) : AtAccountLock(q)
          /\ SubmitValidCreate(r, BodyB)
    \/ SubmitValidCreate(connectionLimit + 1, BodyA)
    \/ \E r \in PoolRequests : GetConnection(r)
    \/ \E r \in PoolRequests : EnsureOcrTable(r)
    \/ \E r \in PoolRequests : AcquireAccountLock(r)
    \/ \E r \in PoolRequests : Finally(r)

SpecPool == InitPool /\ [][NextPool]_vars

(***************************************************************************)
(* SpecDelete: delete submissions against a table that already holds       *)
(* records.  Two of the stored records reference one signature file (the   *)
(* table tolerates it although create never produces it), the third has a  *)
(* file of its own.                                                        *)
(***************************************************************************)
SharedSignatureFile == SignaturePrefix \o <<"a">> \o PngSuffix
OwnSignatureFile == SignaturePrefix \o <<"b">> \o PngSuffix

StoredRows ==
    {NewRow(1, validateOcrPayload(BodyA).data, SharedSignatureFile),
     NewRow(2, validateOcrPayload([BodyB EXCEPT !.transactionRef = Tx2]).data, SharedSignatureFile),
     NewRow(3, validateOcrPayload([BodyA EXCEPT !.accountNumber = Acct3,
                                                !.transactionRef = Tx3]).data, OwnSignatureFile)}

InitDelete ==
    /\ rows = StoredRows
    /\ nextId = Cardinality(StoredRows) + 1
    /\ files = InitialFiles \cup {SharedSignatureFile, OwnSignatureFile}
    /\ locks = {}
    /\ generated = 0
    /\ submitted = 0
    /\ req = [r \in Requests |-> IdleRequest]
    /\ sweep = IdleSweep
    /\ dashboard = NoDashboard

NextDelete ==
    \/ \E r \in Requests : SubmitDelete(r)
    \/ \E r \in Requests : DeleteGetConnection(r)
    \/ \E r \in Requests : SelectSignatureName(r)
    \/ \E r \in Requests : DeleteRow(r)
    \/ \E r \in Requests : CountReferences(r)
    \/ \E r \in Requests : Unlink(r)
    \/ \E r \in Requests : DeleteQueryThrows(r)
    \/ \E r \in Requests : Finally(r)

SpecDelete == InitDelete /\ [][NextDelete]_vars

(***************************************************************************)
(* SpecLive: each slot serves one create or update submission against the  *)
(* stored table, and every await of a handler in flight settles: the pool  *)
(* hands out or refuses a connection, a query returns or throws, GET_LOCK  *)
(* answers within its 5 seconds, and the signature I/O succeeds, fails or   *)
(* is cut by its timer.                                                    *)
(***************************************************************************)
HandlerStep(r) ==
    \/ GetConnection(r)
    \/ EnsureOcrTable(r)
    \/ AcquireAccountLock(r)
    \/ AccountLockTimeout(r)
    \/ CheckAccountNumber(r)
    \/ CheckTransactionRef(r)
    \/ QueryThrows(r)
    \/ Mkdir(r)
    \/ WriteFile(r)
    \/ Insert(r)
    \/ Update(r)
    \/ Finally(r)

\* the stored table holds the one record with a signature file of its own
InitLive ==
    /\ rows = {row \in StoredRows : row.signatureName = OwnSignatureFile}
    /\ nextId = Cardinality(StoredRows) + 1
    /\ files = InitialFiles \cup {OwnSignatureFile}
    /\ locks = {}
    /\ generated = 0
    /\ submitted = 0
    /\ req = [r \in Requests |-> IdleRequest]
    /\ sweep = IdleSweep
    /\ dashboard = NoDashboard

NextLive ==
    \/ \E r \in Requests : req[r].pc = "idle" /\ SubmitCreate(r)
    \/ \E r \in Requests : req[r].pc = "idle" /\ SubmitUpdate(r)
    \/ \E r \in Requests : HandlerStep(r)

SpecLive == InitLive /\ [][NextLive]_vars /\ \A r \in Requests : WF_vars(HandlerStep(r))

(***************************************************************************)
(* SpecCleanup: the cleanup task run again and again on a directory that   *)
(* holds orphan files, with no request in between.                         *)
(***************************************************************************)
OrphanFile1 == SignaturePrefix \o <<"x">> \o PngSuffix
OrphanFile2 == SignaturePrefix \o <<"y">> \o <<".", "P", "N", "G">>
\* not of the shape the sweep touches
ForeignPng == <<"l", "o", "g", "o">> \o PngSuffix

InitCleanup ==
    /\ rows = StoredRows
    /\ nextId = Cardinality(StoredRows) + 1
    /\ files = InitialFiles \cup {SharedSignatureFile, OrphanFile1, OrphanFile2, ForeignPng}
    /\ locks = {}
    /\ generated = 0
    /\ submitted = 0
    /\ req = [r \in Requests |-> IdleRequest]
    /\ sweep = IdleSweep
    /\ dashboard = NoDashboard

NextCleanup ==
    \/ SweepSelect
    \/ SweepReaddir
    \/ SweepFile
    \/ SweepReturn

SpecCleanup == InitCleanup /\ [][NextCleanup]_vars

(***************************************************************************)
(* SpecRace: delete submissions running beside the cleanup task, on the    *)
(* stored table of SpecDelete.                                             *)
(***************************************************************************)
NextRace ==
    \/ \E r \in Requests : SubmitDelete(r)
    \/ \E r \in Requests : DeleteGetConnection(r)
    \/ \E r \in Requests : SelectSignatureName(r)
    \/ \E r \in Requests : DeleteRow(r)
    \/ \E r \in Requests : CountReferences(r)
    \/ \E r \in Requests : Unlink(r)
    \/ \E r \in Requests : DeleteQueryThrows(r)
    \/ \E r \in Requests : Finally(r)
    \/ SweepSelect
    \/ SweepReaddir
    \/ SweepFile
    \/ SweepReturn

SpecRace == InitDelete /\ [][NextRace]_vars

(***************************************************************************)
(* SpecOrphan: the cleanup task scheduled for ever, beside two create      *)
(* submissions for one account, one after the other, whose INSERT may      *)
(* throw after the signature was saved and whose timed-out writes may      *)
(* complete late.  The fairness conditions are the timer and its provisos: *)
(* a run that has started goes on, the task's queries do not fail for ever,*)
(* a directory read again and again is read at last, and so is a file      *)
(* unlinked again and again removed at last (strong fairness: each of      *)
(* these is tried once per run, not continuously).                         *)
(***************************************************************************)
\* a name with '..', left in the shared directory
UnsafeOrphan == SignaturePrefix \o <<"z", ".">> \o PngSuffix

InitOrphan ==
    /\ rows = {}
    /\ nextId = 1
    /\ files = {UnsafeOrphan}
    /\ locks = {}
    /\ generated = 0
    /\ submitted = 0
    /\ req = [r \in Requests |-> IdleRequest]
    /\ sweep = IdleSweep
    /\ dashboard = NoDashboard

SweepReadsDirectory == SweepReaddir /\ sweep'.pc = "loop"

SweepUnlinks(fileName) == SweepFile /\ fileName \in files /\ fileName \notin files'

\* the names a file of the directory can have under SpecOrphan
DirectoryNames == {UnsafeOrphan} \cup {GeneratedFilename(n) : n \in 1..NumRequests}

SweepQueryAnswers == SweepSelectRecurring /\ sweep'.pc = "readdir"

NextOrphan ==
    \/ \E r \in Requests :
          /\ \A q \in Requests : req[q].pc = (IF q < r THEN "done" ELSE "idle")
          /\ SubmitValidCreate(r, IF r = 1 THEN BodyA ELSE BodyA2)
    \/ \E r \in Requests : GetConnection(r)
    \/ \E r \in Requests : EnsureOcrTable(r)
    \/ \E r \in Requests : AcquireAccountLock(r)
    \/ \E r \in Requests : CheckAccountNumber(r)
    \/ \E r \in Requests : CheckTransactionRef(r)
    \/ \E r \in Requests : QueryThrows(r)
    \/ \E r \in Requests : Mkdir(r)
    \/ \E r \in Requests : WriteFile(r)
    \/ \E r \in Requests : LateWrite(r)
    \/ \E r \in Requests : Insert(r)
    \/ \E r \in Requests : Finally(r)
    \/ SweepSelectRecurring
    \/ SweepReaddir
    \/ SweepFile
    \/ SweepReturn

SpecOrphan ==
    /\ InitOrphan
    /\ [][NextOrphan]_vars
    /\ WF_vars(SweepQueryAnswers)
    /\ SF_vars(SweepReadsDirectory)
    /\ WF_vars(SweepFile)
    /\ \A fileName \in DirectoryNames : SF_vars(SweepUnlinks(fileName))
    /\ WF_vars(SweepReturn)

(***************************************************************************)
(* The admin dashboard page (src/pages/Dashboard.js): the table in edit     *)
(* mode and handleSave, one step per fetch and per await.  Its requests are *)
(* served by the handlers above.                                            *)
(***************************************************************************)
RECURSIVE NatDigits(_)
NatDigits(n) ==
    IF n < 10 THEN <<Digits[n + 1]>>
    ELSE NatDigits(n \div 10) \o <<Digits[(n % 10) + 1]>>

\* String(row.electricityBill): the text of a DECIMAL(10, 2) column as the
\* driver hands it over, '' for NULL
DecimalText(d) ==
    IF d = Null THEN <<>>
    ELSE (IF d.neg THEN <<"-">> ELSE <<>>)
         \o NatDigits(d.cents \div 100)
         \o <<".", Digits[((d.cents \div 10) % 10) + 1], Digits[(d.cents % 10) + 1]>>

\* the mapping of fetchDashboardData from a listed record to a table row
TableRowOf(row) ==
    [id |-> row.id,
     accountNumber |-> row.accountNumber,
     accountName |-> row.customerName,
     scannerName |-> row.scannerName,
     referenceNo |-> row.transactionRef,
     amount |-> DecimalText(row.electricityBill),
     signatureName |-> row.signatureName]

\* the row addRow appends; id null is drawn as 0
BlankTableRow ==
    [id |-> 0, accountNumber |-> <<>>, accountName |-> <<>>, scannerName |-> <<>>,
     referenceNo |-> <<>>, amount |-> <<>>, signatureName |-> <<>>]

\* the JSON body handleSave builds for a POST and for a PUT: company, date,
\* amountDue and totalSales are null and there is no signature
DashboardPayload(t) ==
    [transactionRef |-> t.referenceNo,
     accountNumber |-> t.accountNumber,
     customerName |-> t.accountName,
     scannerName |-> t.scannerName,
     company |-> <<>>,
     date |-> <<>>,
     electricityBill |-> t.amount,
     amountDue |-> <<>>,
     totalSales |-> <<>>,
     signature |-> <<>>]

\* /^(\d+\.?\d*|\.\d+|)$/
IsAmountText(value) ==
    LET ip == DigitPrefix(value)
        rest == SubSeq(value, Len(ip) + 1, Len(value))
        fraction == IF rest = <<>> THEN <<>> ELSE Tail(rest)
    IN  \/ value = <<>>
        \/ /\ ip # <<>>
           /\ rest = <<>> \/ (Head(rest) = "." /\ DigitPrefix(fraction) = fraction)
        \/ /\ ip = <<>>
           /\ rest # <<>>
           /\ Head(rest) = "."
           /\ fraction # <<>>
           /\ DigitPrefix(fraction) = fraction

\* what the user types into a cell: column and text
CellEdits ==
    { <<"accountName", EditedName>>,
      <<"amount", <<"7", "x">>>> }

\* the Edit button
ClickEdit ==
    /\ dashboard.pc = "view"
    /\ dashboard' = [dashboard EXCEPT !.pc = "edit", !.isEditMode = TRUE,
                                      !.rejected = FALSE, !.leftBySave = FALSE,
                                      !.savedTable = {}, !.savedDeleted = {}]
    /\ UNCHANGED <<rows, nextId, files, locks, generated, submitted, req, sweep>>

handleCellChange(t, columnKey, value) ==
    /\ dashboard.pc = "edit"
    /\ t \in dashboard.tableData
    /\ IF columnKey = "amount" /\ value # <<>> /\ ~IsAmountText(value)
       THEN UNCHANGED dashboard
       ELSE dashboard' = [dashboard EXCEPT
                !.tableData = (@ \ {t}) \cup {[t EXCEPT ![columnKey] = value]}]
    /\ UNCHANGED <<rows, nextId, files, locks, generated, submitted, req, sweep>>

deleteRow(t) ==
    /\ dashboard.pc = "edit"
    /\ t \in dashboard.tableData
    /\ dashboard' = [dashboard EXCEPT
            !.tableData = @ \ {t},
            !.deletedIds = IF t.id # 0 THEN @ \cup {t.id} ELSE @]
    /\ UNCHANGED <<rows, nextId, files, locks, generated, submitted, req, sweep>>

addRow ==
    /\ dashboard.pc = "edit"
    /\ dashboard' = [dashboard EXCEPT !.tableData = @ \cup {BlankTableRow}]
    /\ UNCHANGED <<rows, nextId, files, locks, generated, submitted, req, sweep>>

Fetch(method, t) == [method |-> method, row |-> t]

rowsToCreate ==
    {t \in dashboard.tableData :
        /\ t.id = 0
        /\ t.accountNumber # <<>> \/ t.accountName # <<>>
           \/ t.referenceNo # <<>> \/ t.amount # <<>>}

rowsToUpdate == {t \in dashboard.tableData : t.id # 0}

\* the number of times Save is clicked
MaxSaves == 1

\* the Save button: handleSave up to its first await; submitted counts the
\* clicks
handleSave ==
    /\ dashboard.pc = "edit"
    /\ submitted < MaxSaves
    /\ submitted' = submitted + 1
    /\ dashboard' = [dashboard EXCEPT
            !.pc = "deleting",
            !.toSend = {Fetch("DELETE", [BlankTableRow EXCEPT !.id = id]) :
                            id \in dashboard.deletedIds},
            !.sent = {},
            !.savedTable = dashboard.tableData,
            !.savedDeleted = dashboard.deletedIds]
    /\ UNCHANGED <<rows, nextId, files, locks, generated, req, sweep>>

\* one fetch of the Promise.all in hand reaches the server
SaveFetch(r) ==
    /\ dashboard.toSend # {}
    /\ req[r].pc \in {"idle", "done"}
    /\ r \notin dashboard.sent
    /\ \E item \in dashboard.toSend :
        /\ IF item.method = "DELETE"
           THEN Arrive(r, DeleteArrival(r, item.row.id))
           ELSE IF item.method = "POST"
           THEN Arrive(r, CreateArrival(r, DashboardPayload(item.row)))
           ELSE IF item.method = "PUT"
           THEN Arrive(r, UpdateArrival(r, DashboardPayload(item.row), item.row.id))
           ELSE Arrive(r, ListArrival(r, DefaultRowLimit))
        /\ dashboard' = [dashboard EXCEPT !.toSend = @ \ {item}, !.sent = @ \cup {r}]
    /\ UNCHANGED <<rows, nextId, files, locks, generated, submitted, sweep>>

\* every fetch of the Promise.all in hand has resolved with a response
AllResolved ==
    /\ dashboard.toSend = {}
    /\ \A r \in dashboard.sent : req[r].response # NoResponse

\* handleSave never looks at a response
SomeRejected == \E r \in dashboard.sent : ~req[r].response.ok

DeletesSettled ==
    /\ dashboard.pc = "deleting"
    /\ AllResolved
    /\ dashboard' = [dashboard EXCEPT
            !.pc = "creating",
            !.toSend = {Fetch("POST", t) : t \in rowsToCreate},
            !.sent = {},
            !.rejected = @ \/ SomeRejected]
    /\ UNCHANGED <<rows, nextId, files, locks, generated, submitted, req, sweep>>

CreatesSettled ==
    /\ dashboard.pc = "creating"
    /\ AllResolved
    /\ dashboard' = [dashboard EXCEPT
            !.pc = "updating",
            !.toSend = {Fetch("PUT", t) : t \in rowsToUpdate},
            !.sent = {},
            !.rejected = @ \/ SomeRejected]
    /\ UNCHANGED <<rows, nextId, files, locks, generated, submitted, req, sweep>>

UpdatesSettled ==
    /\ dashboard.pc = "updating"
    /\ AllResolved
    /\ dashboard' = [dashboard EXCEPT
            !.pc = "refreshing",
            !.toSend = {Fetch("GET", BlankTableRow)},
            !.sent = {},
            !.rejected = @ \/ SomeRejected]
    /\ UNCHANGED <<rows, nextId, files, locks, generated, submitted, req, sweep>>

\* fetchDashboardData got its answer; handleSave then leaves edit mode
fetchDashboardData ==
    /\ dashboard.pc = "refreshing"
    /\ AllResolved
    /\ \E r \in dashboard.sent :
        dashboard' = [dashboard EXCEPT
            !.pc = "view",
            !.isEditMode = FALSE,
            !.leftBySave = TRUE,
            !.sent = {},
            !.tableData = IF req[r].response.ok
                          THEN {TableRowOf(req[r].listed[i]) : i \in DOMAIN req[r].listed}
                          ELSE @,
            !.deletedIds = IF req[r].response.ok THEN {} ELSE @]
    /\ UNCHANGED <<rows, nextId, files, locks, generated, submitted, req, sweep>>

\* a fetch rejects (the server cannot be reached): the catch of handleSave
\* keeps edit mode; inside fetchDashboardData its own catch swallows the
\* error and handleSave goes on to leave edit mode
FetchRejects ==
    /\ dashboard.pc \in {"deleting", "creating", "updating", "refreshing"}
    /\ dashboard.toSend # {} \/ dashboard.sent # {}
    /\ dashboard' =
         IF dashboard.pc = "refreshing"
         THEN [dashboard EXCEPT !.pc = "view", !.isEditMode = FALSE, !.leftBySave = TRUE,
                                !.toSend = {}, !.sent = {}]
         ELSE [dashboard EXCEPT !.pc = "edit", !.toSend = {}, !.sent = {}]
    /\ UNCHANGED <<rows, nextId, files, locks, generated, submitted, req, sweep>>

(***************************************************************************)
(* SpecDashboard: the dashboard open on a stored table of two records, in  *)
(* view mode after its first load.  Every POST and every PUT it builds is  *)
(* answered by the handler before its first await, so that only the delete *)
(* and the list handlers take further steps.                               *)
(***************************************************************************)
DashboardRows == {row \in StoredRows : row.signatureName # SharedSignatureFile}
                 \cup {row \in StoredRows : row.id = 1}

InitDashboard ==
    /\ rows = DashboardRows
    /\ nextId = Cardinality(StoredRows) + 1
    /\ files = InitialFiles \cup {SharedSignatureFile, OwnSignatureFile}
    /\ locks = {}
    /\ generated = 0
    /\ submitted = 0
    /\ req = [r \in Requests |-> IdleRequest]
    /\ sweep = IdleSweep
    /\ dashboard = [NoDashboard EXCEPT
                       !.pc = "view",
                       !.tableData = {TableRowOf(row) : row \in DashboardRows}]

NextDashboard ==
    \/ ClickEdit
    \/ \E t \in dashboard.tableData, edit \in CellEdits : handleCellChange(t, edit[1], edit[2])
    \/ \E t \in dashboard.tableData : deleteRow(t)
    \/ addRow
    \/ handleSave
    \/ \E r \in Requests : SaveFetch(r)
    \/ DeletesSettled
    \/ CreatesSettled
    \/ UpdatesSettled
    \/ fetchDashboardData
    \/ FetchRejects
    \/ \E r \in Requests : DeleteGetConnection(r)
    \/ \E r \in Requests : SelectSignatureName(r)
    \/ \E r \in Requests : DeleteRow(r)
    \/ \E r \in Requests : CountReferences(r)
    \/ \E r \in Requests : Unlink(r)
    \/ \E r \in Requests : DeleteQueryThrows(r)
    \/ \E r \in Requests : ListGetConnection(r)
    \/ \E r \in Requests : ListEnsureOcrTable(r)
    \/ \E r \in Requests : SelectRows(r)
    \/ \E r \in Requests : ListQueryThrows(r)
    \/ \E r \in Requests : Finally(r)

SpecDashboard == InitDashboard /\ [][NextDashboard]_vars

(***************************************************************************)
(* SpecList: create and list submissions against a table that is empty or  *)
(* already holds as many records as the list handler returns by default.   *)
(***************************************************************************)
\* the decimal digits of n, padded with zeros to width characters
RECURSIVE PaddedDigits(_, _)
PaddedDigits(n, width) ==
    IF width = 0 THEN <<>>
    ELSE PaddedDigits(n \div 10, width - 1) \o <<Digits[(n % 10) + 1]>>

\* the record with id i of a table filled by earlier creates, each for an
\* account, a transaction reference and a signature file of its own
StoredRow(i) ==
    NewRow(i,
           validateOcrPayload(
               [BodyA EXCEPT !.accountNumber = <<"B", "9">> \o PaddedDigits(i, 5),
                             !.transactionRef = Tx3 \o PaddedDigits(i, 5)]).data,
           SignaturePrefix \o <<"r">> \o PaddedDigits(i, 5) \o PngSuffix)

StoredTable(n) == {StoredRow(i) : i \in 1..n}

InitList ==
    /\ \E n \in {0, DefaultRowLimit} :
          /\ rows = StoredTable(n)
          /\ nextId = n + 1
          /\ files = InitialFiles \cup {row.signatureName : row \in StoredTable(n)}
    /\ locks = {}
    /\ generated = 0
    /\ submitted = 0
    /\ req = [r \in Requests |-> IdleRequest]
    /\ sweep = IdleSweep
    /\ dashboard = NoDashboard

NextList ==
    \/ \E r \in Requests, body \in {BodyA, BodyB} : SubmitValidCreate(r, body)
    \/ \E r \in Requests : req[r].pc = "idle" /\ SubmitList(r)
    \/ \E r \in Requests : GetConnection(r)
    \/ \E r \in Requests : EnsureOcrTable(r)
    \/ \E r \in Requests : AcquireAccountLock(r)
    \/ \E r \in Requests : AccountLockTimeout(r)
    \/ \E r \in Requests : CheckAccountNumber(r)
    \/ \E r \in Requests : CheckTransactionRef(r)
    \/ \E r \in Requests : QueryThrows(r)
    \/ \E r \in Requests : Mkdir(r)
    \/ \E r \in Requests : WriteFile(r)
    \/ \E r \in Requests : Insert(r)
    \/ \E r \in Requests : ListGetConnection(r)
    \/ \E r \in Requests : ListEnsureOcrTable(r)
    \/ \E r \in Requests : SelectRows(r)
    \/ \E r \in Requests : ListQueryThrows(r)
    \/ \E r \in Requests : Finally(r)

SpecList == InitList /\ [][NextList]_vars

(***************************************************************************)
(* SpecValidate: one create submission whose body is any combination of    *)
(* present, absent and malformed field values; its only step is the        *)
(* handler's call of validateOcrPayload and the test of the error list.    *)
(***************************************************************************)
TransactionRefInputs ==
    {Tx1Dashed, <<>>, <<"1", "2", "3">>, <<"n", "o">>, SubSeq(Tx1Dashed, 1, Len(Tx1Dashed) - 1)}
DateInputs == {BodyA.date, <<>>, <<" ">>}
CustomerNameInputs == {BodyA.customerName, <<>>, <<"4", "2">>, <<" ", "D", "e", " ", "S", "a", ",", " ", "J", ".">>}
AccountNumberInputs ==
    {Acct1, Acct1Spaced, AcctShort, <<>>, <<"B">> \o Acct2, <<"1", "2", "3", "4", "5", "6">>}
ScannerNameInputs == {BodyA.scannerName, <<>>, <<"\t">>}
ElectricityBillInputs ==
    {Bill50, Bill4999, <<>>, <<"a", "b", "c">>, <<"1", ",", "0", "5", "0">>, <<"-", "6", "0">>,
     <<"5", "0", "a", "b", "c">>}
AmountDueInputs == {<<>>, <<"1", "2", ".", "5">>, <<"n", "/", "a">>, <<" ">>}
TotalSalesInputs == {<<>>, <<"7">>, <<".">>}

ValidatorPayloads ==
    {[BodyA EXCEPT !.transactionRef = t, !.date = d, !.customerName = c,
                   !.accountNumber = a, !.scannerName = s, !.electricityBill = e,
                   !.amountDue = m, !.totalSales = u] :
        t \in TransactionRefInputs, d \in DateInputs, c \in CustomerNameInputs,
        a \in AccountNumberInputs, s \in ScannerNameInputs, e \in ElectricityBillInputs,
        m \in AmountDueInputs, u \in TotalSalesInputs}

InitValidate ==
    /\ rows = {}
    /\ nextId = 1
    /\ files = InitialFiles
    /\ locks = {}
    /\ generated = 0
    /\ submitted = 0
    /\ \E body \in ValidatorPayloads : req = [r \in {1} |-> [IdleRequest EXCEPT !.body = body]]
    /\ sweep = IdleSweep
    /\ dashboard = NoDashboard

\* POST /api/ocr-data with the body of the slot, which passes the signature
\* guards: validateOcrPayload, then the answer when errors is not empty
ValidatePayload(r) ==
    /\ req[r].pc = "idle"
    /\ HasPngPrefix(req[r].body.signature)
    /\ LET v == validateOcrPayload(req[r].body)
       IN  req' = [req EXCEPT
                    ![r].kind = "create",
                    ![r].data = v.data,
                    ![r].response = IF v.errors # <<>>
                                    THEN Response(400, FALSE, "VALIDATION_ERROR", v.errors)
                                    ELSE NoResponse,
                    ![r].pc = IF v.errors # <<>> THEN "done" ELSE "getConnection"]
    /\ UNCHANGED <<rows, nextId, files, locks, generated, submitted, sweep, dashboard>>

NextValidate == ValidatePayload(1)

SpecValidate == InitValidate /\ [][NextValidate]_vars

(***************************************************************************)
(* The extractor's transaction reference rule (client side): the match of  *)
(* /Trans[a-z]*\s*Ref[a-z]*\s*[:\.-]?\s*([0-9OIlZSB]{15,})/i in the        *)
(* recognized text, then cleanOCRNumber on the captured group.             *)
(***************************************************************************)
MinCaptureLength == 15
MaxCleanedLength == 20
TruncatedLength == 15

\* a plausible slip: the confusable characters are stripped, not corrected
cleanOCRNumberStrippingOnly(str) == SelectSeq(str, LAMBDA c : IsDigit(c) \/ c = ".")

\* the chain of replace calls: confusable characters become digits, then
\* everything that is neither a digit nor a dot is removed
cleanOCRNumber(str) ==
    LET corrected(c) ==
            IF c \in {"O", "o", "D", "Q"} THEN "0"
            ELSE IF c \in {"I", "l", "|", "]"} THEN "1"
            ELSE IF c = "Z" THEN "2"
            ELSE IF c = "S" THEN "5"
            ELSE IF c = "B" THEN "8"
            ELSE c
    IN  SelectSeq([i \in DOMAIN str |-> corrected(str[i])], LAMBDA c : IsDigit(c) \/ c = ".")

\* the pieces of the pattern before its group; under the i flag a letter
\* stands for both of its cases
Literal(c) == [cls |-> {LowerChar(c), UpperChar(c)}, min |-> 1, many |-> FALSE]
Optional(cls) == [cls |-> cls, min |-> 0, many |-> FALSE]
Star(cls) == [cls |-> cls, min |-> 0, many |-> TRUE]

TransRefPrefix ==
    << Literal("T"), Literal("r"), Literal("a"), Literal("n"), Literal("s"),
       Star(LowerSet \cup UpperSet), Star(Whitespace),
       Literal("R"), Literal("e"), Literal("f"),
       Star(LowerSet \cup UpperSet), Star(Whitespace),
       Optional({":", ".", "-"}), Star(Whitespace) >>

\* [0-9OIlZSB] under the i flag
CaptureClass ==
    DigitSet \cup {"O", "I", "L", "Z", "S", "B"} \cup {"o", "i", "l", "z", "s", "b"}

\* the number of characters of cls in a row from pos on
RunLength(text, cls, pos) ==
    (CHOOSE j \in pos..(Len(text) + 1) :
        /\ \A i \in pos..(j - 1) : text[i] \in cls
        /\ (j = Len(text) + 1 \/ text[j] \notin cls)) - pos

NoMatch == <<0, 0>>

\* the backtracking match of the pieces from k on at pos: each piece takes
\* as many characters as it can and gives them back one by one while the
\* rest fails; the result is the first and last position of the group
RECURSIVE MatchFrom(_, _, _), TryCount(_, _, _, _)
MatchFrom(text, k, pos) ==
    IF k > Len(TransRefPrefix)
    THEN LET captured == RunLength(text, CaptureClass, pos)
         IN  IF captured >= MinCaptureLength THEN <<pos, pos + captured - 1>> ELSE NoMatch
    ELSE LET run == RunLength(text, TransRefPrefix[k].cls, pos)
         IN  TryCount(text, k, pos,
                      IF TransRefPrefix[k].many \/ run = 0 THEN run ELSE 1)

TryCount(text, k, pos, n) ==
    IF n < TransRefPrefix[k].min THEN NoMatch
    ELSE LET rest == MatchFrom(text, k + 1, pos + n)
         IN  IF rest # NoMatch THEN rest ELSE TryCount(text, k, pos, n - 1)

\* text.match: the match at the leftmost position that has one
TransMatch(text) ==
    LET starts == {i \in 1..Len(text) : MatchFrom(text, 1, i) # NoMatch}
    IN  IF starts = {} THEN NoMatch
        ELSE MatchFrom(text, 1, CHOOSE i \in starts : \A j \in starts : i <= j)

\* data.transactionRef of parseOCRText; found is FALSE when the field is
\* left undefined
ExtractTransactionRef(text) ==
    LET m == TransMatch(text)
        cleanedRef == cleanOCRNumber(SubSeq(text, m[1], m[2]))
    IN  IF m = NoMatch THEN [found |-> FALSE, transactionRef |-> <<>>]
        ELSE [found |-> TRUE,
              transactionRef |-> IF Len(cleanedRef) > MaxCleanedLength
                                 THEN SubSeq(cleanedRef, 1, TruncatedLength)
                                 ELSE cleanedRef]

(***************************************************************************)
(* SpecExtract: a recognized text made of a label, a separator, a written  *)
(* reference and what follows it goes through the transaction reference    *)
(* rule of parseOCRText.                                                   *)
(***************************************************************************)
LabelInputs ==
    {<<"T", "r", "a", "n", "s", " ", "R", "e", "f">>,
     <<"T", "R", "A", "N", "S", "A", "C", "T", "I", "O", "N", " ", "R", "E", "F", "E", "R", "E", "N", "C", "E">>,
     <<"T", "r", "a", "n", "s", "R", "e", "f">>,
     <<"T", "r", "a", "n", "s", ".", " ", "R", "e", "f">>,
     <<"R", "e", "f", " ", "N", "o">>}
SeparatorInputs ==
    {<<":", " ">>,
     <<>>,
     <<" ", "-", " ">>,
     <<":", "\n">>,
     <<" ">>}
ConfusableReference == <<"Z">> \o [i \in 1..MinCaptureLength |-> "O"]
MixedReference == <<"I", "l", "S", "B", "0", "1", "2", "3", "4", "5", "6", "7", "8", "9", "Z">>
LowerCaseReference == <<"z", "s", "b", "0", "1", "2", "3", "4", "5", "6", "7", "8", "9", "0", "1">>
LongReference == Tx1 \o SubSeq(Tx2, 1, 6)
ReferenceInputs ==
    {ConfusableReference, MixedReference, LowerCaseReference, LongReference, Tx1,
     SubSeq(Tx1, 1, Len(Tx1) - 1)}
TrailerInputs ==
    {<<>>,
     <<" ", "A", "c", "c", "t">>,
     <<"\n">>}

RecognizedTexts ==
    {label \o separator \o reference \o trailer :
        label \in LabelInputs, separator \in SeparatorInputs,
        reference \in ReferenceInputs, trailer \in TrailerInputs}

NotParsed == [found |-> FALSE, transactionRef |-> <<>>]

InitExtract ==
    /\ rows = {}
    /\ nextId = 1
    /\ files = InitialFiles
    /\ locks = {}
    /\ generated = 0
    /\ submitted = 0
    /\ \E text \in RecognizedTexts :
          req = [r \in {1} |-> [kind |-> "scan", pc |-> "recognized",
                                rawText |-> text, parsedData |-> NotParsed]]
    /\ sweep = IdleSweep
    /\ dashboard = NoDashboard

\* const parsed = parseOCRText(t), as far as data.transactionRef goes
ParseOCRText(r) ==
    /\ req[r].pc = "recognized"
    /\ req' = [req EXCEPT ![r].parsedData = ExtractTransactionRef(req[r].rawText),
                          ![r].pc = "parsed"]
    /\ UNCHANGED <<rows, nextId, files, locks, generated, submitted, sweep, dashboard>>

NextExtract == ParseOCRText(1)

SpecExtract == InitExtract /\ [][NextExtract]_vars

(***************************************************************************)
(* Vocabulary of the properties.                                           *)
(***************************************************************************)
SpecificCodes ==
    {"VALIDATION_ERROR", "DUPLICATE_ACCOUNT_NUMBER", "DUPLICATE_TRANSACTION_REFERENCE",
     "ACCOUNT_LOCK_TIMEOUT", "SIGNATURE_REQUIRED", "INVALID_SIGNATURE_FORMAT",
     "SIGNATURE_SAVE_FAILED"}

Responded(r) == req[r].response # NoResponse
Succeeded(r) == req[r].response.ok
Code(r) == req[r].response.code
IsCreate(r) == req[r].kind = "create"
IsUpdate(r) == req[r].kind = "update"

\* the submission got past the signature guards and the validation guard
PassedValidation(r) ==
    /\ req[r].kind \in {"create", "update"}
    /\ IsCreate(r) => HasPngPrefix(req[r].body.signature)
    /\ IsUpdate(r) => req[r].id # 0
    /\ Validated[req[r].body].errors = <<>>

\* the two submissions were in flight at the same time
Concurrent(r1, r2) == r1 \in req[r2].concurrentWith \/ r2 \in req[r1].concurrentWith

SameAccount(r1, r2) ==
    normalizeAccountNumber(req[r1].body.accountNumber)
        = normalizeAccountNumber(req[r2].body.accountNumber)

\* concurrent validated creates for one normalized account number
RacingCreates(r1, r2) ==
    /\ r1 # r2
    /\ IsCreate(r1) /\ IsCreate(r2)
    /\ PassedValidation(r1) /\ PassedValidation(r2)
    /\ SameAccount(r1, r2)
    /\ Concurrent(r1, r2)

\* between the duplicate check of the account number and the write
PastAccountCheck(r) == req[r].pc \in {"checkTransactionRef", "mkdir", "writeFile", "insert", "update"}

\* between the successful GET_LOCK and the RELEASE_LOCK of the finally block
InCriticalSection(r) == req[r].lockKey # <<>> /\ req[r].pc # "done"

HoldsAccount(r) ==
    \E row \in rows : row.id = req[r].insertId /\ row.accountNumber = req[r].data.accountNumber

C2_TransactionRefUnique ==
    \A x, y \in rows : x.id # y.id => x.transactionRef # y.transactionRef

(***************************************************************************)
(* C3 (as stated): a create whose account number equals an existing        *)
(* record's up to casing and spacing is rejected with                      *)
(* DUPLICATE_ACCOUNT_NUMBER (the HTTP 500 of a store error left aside).    *)
(***************************************************************************)
\* a record the request did not insert itself holds its account number
AccountTaken(r) ==
    \E row \in rows :
        /\ row.id # req[r].insertId
        /\ normalizeAccountNumber(row.accountNumber)
               = normalizeAccountNumber(req[r].body.accountNumber)

C3_DuplicateCreateGetsDuplicateCode ==
    \A r \in Requests :
        /\ IsCreate(r) /\ PassedValidation(r)
        /\ req[r].accountExisted /\ AccountTaken(r)
        /\ Responded(r)
        => \/ Code(r) = "DUPLICATE_ACCOUNT_NUMBER"
           \/ req[r].response.status = 500

(***************************************************************************)
(* C3 (amended): no two persisted records have account numbers equal up to *)
(* casing and spacing; a create or update for an account number that       *)
(* another record holds never gets past its account duplicate check, so a  *)
(* create for such an account never inserts; once it holds the account     *)
(* lock it is rejected with DUPLICATE_ACCOUNT_NUMBER (or the HTTP 500 of a *)
(* store error); without the lock it ends with ACCOUNT_LOCK_TIMEOUT.       *)
(***************************************************************************)
C3_AccountNumberUnique ==
    /\ \A x, y \in rows :
        x.id # y.id =>
            normalizeAccountNumber(x.accountNumber) # normalizeAccountNumber(y.accountNumber)
    /\ \A r \in Requests :
        PastAccountCheck(r) =>
            ~\E row \in OtherRows(r) :
                normalizeAccountNumber(row.accountNumber) = req[r].data.accountNumber
    /\ \A r \in Requests :
        /\ IsCreate(r) /\ PassedValidation(r)
        /\ AccountTaken(r) /\ InCriticalSection(r)
        /\ Responded(r)
        => /\ ~Succeeded(r)
           /\ req[r].insertId = 0
           /\ Code(r) = "DUPLICATE_ACCOUNT_NUMBER" \/ req[r].response.status = 500

\* a create whose account number differs from a stored one in casing and
\* spacing only was answered DUPLICATE_ACCOUNT_NUMBER
C3_Witness ==
    \E r \in Requests, row \in rows :
        /\ IsCreate(r)
        /\ Code(r) = "DUPLICATE_ACCOUNT_NUMBER"
        /\ req[r].body.accountNumber # row.accountNumber
        /\ normalizeAccountNumber(req[r].body.accountNumber) = row.accountNumber

(***************************************************************************)
(* C4: two submissions for the same normalized account number are never    *)
(* both between their lock acquisition and their lock release.             *)
(***************************************************************************)
C4_MutualExclusion ==
    \A r1, r2 \in Requests :
        r1 # r2 /\ InCriticalSection(r1) /\ InCriticalSection(r2) =>
            ~SameAccount(r1, r2)

\* one submission is inside the critical section while another for the
\* same account waits for the lock
C4_Witness ==
    \E r1, r2 \in Requests :
        /\ r1 # r2
        /\ SameAccount(r1, r2)
        /\ req[r1].body.accountNumber # req[r2].body.accountNumber
        /\ InCriticalSection(r1) /\ req[r1].pc = "insert"
        /\ req[r2].pc = "acquireAccountLock"

C6_NoInsertAfterSignatureFailure ==
    \A r \in Requests :
        IsCreate(r) /\ (req[r].warning # "" \/ Code(r) = "SIGNATURE_SAVE_FAILED") =>
            /\ req[r].response = Response(503, FALSE, "SIGNATURE_SAVE_FAILED", <<req[r].warning>>)
            /\ req[r].warning # ""
            /\ req[r].pc \in {"finally", "done"}
            /\ req[r].insertId = 0
            /\ req[r].signatureName = <<>>
            /\ req[r].filename # <<>> => ~\E row \in rows : row.signatureName = req[r].filename

\* a create has finished after both of its write attempts failed
C6_Witness ==
    \E r \in Requests :
        /\ IsCreate(r)
        /\ req[r].pc = "done"
        /\ req[r].attempt = MaxWriteAttempts
        /\ req[r].warning \in WriteErrors(MaxWriteAttempts)
        /\ Code(r) = "SIGNATURE_SAVE_FAILED"

(***************************************************************************)
(* C7: every create with a well-formed PNG signature and a payload passing *)
(* validation ends either in success with its one row inserted, or in a    *)
(* failure carrying one of the specific error codes with no row inserted.  *)
(***************************************************************************)
C7_SuccessOrSpecificCode ==
    \A r \in Requests :
        /\ IsCreate(r)
        /\ MatchesPngDataUrl(req[r].body.signature)
        /\ Validated[req[r].body].errors = <<>>
        /\ Responded(r)
        => \/ /\ Succeeded(r)
              /\ req[r].insertId # 0
           \/ /\ ~Succeeded(r)
              /\ Code(r) \in SpecificCodes
              /\ req[r].insertId = 0

(***************************************************************************)
(* C8: every persisted record has a non-empty signatureName: the INSERT is *)
(* reached only with the file name the signature save returned, and the    *)
(* row a create inserted keeps that name through later updates.            *)
(***************************************************************************)
C8_SignatureNamePresent ==
    /\ \A row \in rows : row.signatureName # <<>>
    /\ \A r \in Requests : req[r].pc = "insert" => req[r].signatureName = req[r].filename
                                                   /\ req[r].filename # <<>>
    /\ \A r \in Requests :
        req[r].insertId # 0 =>
            \E row \in rows : row.id = req[r].insertId /\ row.signatureName = req[r].signatureName

\* an update has rewritten the data of a record
C8_Witness ==
    \E r \in Requests, row \in rows :
        /\ IsUpdate(r)
        /\ Succeeded(r)
        /\ row.id = req[r].id
        /\ row.accountNumber = req[r].data.accountNumber
        /\ row.transactionRef = req[r].data.transactionRef
        /\ row.signatureName # <<>>
        /\ \E q \in Requests : req[q].insertId = row.id /\ req[q].data # req[r].data

(***************************************************************************)
(* C9: the signatureName of every persisted record names a file that is    *)
(* present in the shared directory, whatever the interleaving of the       *)
(* cleanup task with create submissions.                                   *)
(***************************************************************************)
C9_SignatureFilePresent == \A row \in rows : row.signatureName \in files

(***************************************************************************)
(* C10: a create (or update) whose payload fails validation is answered    *)
(* VALIDATION_ERROR with the full error list and has no side effect: it    *)
(* takes no connection and no account lock, writes no signature file, and  *)
(* the step that answers it leaves rows, files and locks as they were.     *)
(***************************************************************************)
FailsValidation(r) ==
    /\ req[r].kind \in {"create", "update"}
    /\ IsCreate(r) => HasPngPrefix(req[r].body.signature)
    /\ IsUpdate(r) => req[r].id # 0
    /\ Validated[req[r].body].errors # <<>>

C10_RejectedWithoutEffect ==
    \A r \in Requests :
        FailsValidation(r) =>
            /\ req[r].response = Response(400, FALSE, "VALIDATION_ERROR",
                                          validateOcrPayload(req[r].body).errors)
            /\ req[r].body = BodyInvalid =>
                req[r].response.details = <<"Account number must contain at least 6 digits",
                                            "Bill amount must be at least 50">>
            /\ req[r].pc = "done"
            /\ ~req[r].conn
            /\ req[r].lockKey = <<>> /\ ~\E l \in locks : l[2] = r
            /\ req[r].filename = <<>> /\ req[r].signatureName = <<>>
            /\ req[r].insertId = 0

C10_AnswerChangesNothing ==
    \A r \in Requests :
        req'[r] # req[r] /\ req'[r].response.code = "VALIDATION_ERROR" =>
            /\ rows' = rows /\ nextId' = nextId
            /\ files' = files /\ generated' = generated
            /\ locks' = locks

C11_MalformedSignatureRejectedAtOnce ==
    \A r \in Requests :
        IsCreate(r) /\ ~MatchesPngDataUrl(req[r].body.signature) =>
            /\ req[r].pc = "done"
            /\ req[r].response =
                   Response(400, FALSE,
                            IF req[r].body.signature = <<>> THEN "SIGNATURE_REQUIRED"
                                                           ELSE "INVALID_SIGNATURE_FORMAT",
                            <<>>)
            /\ ~req[r].conn
            /\ req[r].lockKey = <<>>
            /\ req[r].warning = ""

(***************************************************************************)
(* C12: a create or update that could not acquire the account lock is      *)
(* answered 429 ACCOUNT_LOCK_TIMEOUT and has no side effect: it has run no *)
(* duplicate check, written no file, inserted or updated no row, holds no  *)
(* lock, and its finally block releases nothing (the lock it waited for    *)
(* stays with its holder).  A submission leaves the lock acquisition with  *)
(* that answer whenever another session holds the lock.                    *)
(***************************************************************************)
TimedOut(r) == Code(r) = "ACCOUNT_LOCK_TIMEOUT"

C12_TimedOutState ==
    \A r \in Requests :
        TimedOut(r) =>
            /\ req[r].response = Response(429, FALSE, "ACCOUNT_LOCK_TIMEOUT", <<>>)
            /\ req[r].pc \in {"finally", "done"}
            /\ req[r].lockKey = <<>>
            /\ ~\E l \in locks : l[2] = r
            /\ req[r].filename = <<>> /\ req[r].signatureName = <<>>
            /\ req[r].warning = ""
            /\ req[r].insertId = 0

C12_TimedOutStep ==
    \A r \in Requests :
        /\ req[r].pc = "acquireAccountLock" /\ req'[r].pc # "acquireAccountLock" =>
            /\ TimedOut(r)' =>
                /\ \E l \in locks : l[1] = LockKeyOf(r) /\ l[2] # r
                /\ rows' = rows /\ files' = files /\ locks' = locks
            /\ (\E l \in locks : l[1] = LockKeyOf(r)) =>
                TimedOut(r)' \/ req'[r].response.status = 500
        /\ TimedOut(r) /\ req[r].pc = "finally" /\ req'[r].pc = "done" =>
            /\ rows' = rows /\ files' = files /\ locks' = locks
            /\ ~req'[r].conn

C12_LockTimeoutHasNoEffect == [](C12_TimedOutState) /\ [][C12_TimedOutStep]_vars

\* a submission has finished with ACCOUNT_LOCK_TIMEOUT while the submission
\* it waited for still holds the lock
C12_Witness ==
    \E r, q \in Requests :
        /\ req[r].pc = "done"
        /\ TimedOut(r)
        /\ q # r /\ SameAccount(r, q)
        /\ <<LockKeyOf(r), q>> \in locks

(***************************************************************************)
(* C13: a create is rejected as a duplicate only while it holds the        *)
(* account lock and before it has written a file or inserted a row; the    *)
(* account-number check runs first, so a create colliding on both fields   *)
(* gets DUPLICATE_ACCOUNT_NUMBER and one colliding on transactionRef only  *)
(* gets DUPLICATE_TRANSACTION_REFERENCE.                                   *)
(***************************************************************************)
DuplicateCodes == {"DUPLICATE_ACCOUNT_NUMBER", "DUPLICATE_TRANSACTION_REFERENCE"}

CollidesOnAccount(r) ==
    \E row \in rows :
        normalizeAccountNumber(row.accountNumber) = normalizeAccountNumber(req[r].body.accountNumber)

CollidesOnTransactionRef(r) ==
    \E row \in rows : row.transactionRef = normalizeTransactionRef(req[r].body.transactionRef)

C13_RejectedState ==
    \A r \in Requests :
        IsCreate(r) /\ Code(r) \in DuplicateCodes =>
            /\ req[r].response = Response(409, FALSE, Code(r), <<>>)
            /\ req[r].lockKey = LockKeyOf(r)
            /\ req[r].pc \in {"finally", "done"}
            /\ req[r].pc = "finally" => <<req[r].lockKey, r>> \in locks
            /\ req[r].filename = <<>> /\ req[r].signatureName = <<>>
            /\ req[r].insertId = 0

C13_CheckStep ==
    \A r \in Requests :
        IsCreate(r) /\ req'[r].pc # req[r].pc /\ req'[r].response.status # 500 =>
            /\ req[r].pc = "checkAccountNumber" =>
                /\ <<LockKeyOf(r), r>> \in locks
                /\ CollidesOnAccount(r) => Code(r)' = "DUPLICATE_ACCOUNT_NUMBER"
                /\ ~CollidesOnAccount(r) => req'[r].pc = "checkTransactionRef"
            /\ req[r].pc = "checkTransactionRef" =>
                /\ <<LockKeyOf(r), r>> \in locks
                /\ ~CollidesOnAccount(r)
                /\ CollidesOnTransactionRef(r) <=> Code(r)' = "DUPLICATE_TRANSACTION_REFERENCE"
            /\ Code(r)' \in DuplicateCodes /\ Code(r) \notin DuplicateCodes =>
                /\ req[r].pc \in {"checkAccountNumber", "checkTransactionRef"}
                /\ rows' = rows /\ files' = files /\ locks' = locks

AloneOnAccount(r) == \A q \in InFlight \ {r} : ~SameAccount(r, q)

\* the submission holds its account lock, or waits for it on its connection
\* while another session holds it
HoldsOrAwaitsLock(q) == req[q].conn /\ \E l \in locks : l[1] = LockKeyOf(q)

C14_DifferentAccountsNeverContend ==
    \A r \in DOMAIN req :
        AloneOnAccount(r) =>
            /\ /\ req[r].pc = "getConnection"
               /\ \A q \in DOMAIN req : req[q].conn => HoldsOrAwaitsLock(q)
               => ConnsInUse < connectionLimit
            /\ req[r].pc = "acquireAccountLock" => ~\E l \in locks : l[1] = LockKeyOf(r)

IsDelete(r) == req[r].kind = "delete"
Referenced(name) == \E row \in rows : row.signatureName = name

(***************************************************************************)
(* C15: a delete unlinks a file only after it has deleted the record that  *)
(* named it and counted no surviving reference, so the file of a record    *)
(* that is still stored is never removed by a delete.  A delete that       *)
(* counted no surviving reference has removed the file when it answers     *)
(* success without reporting signatureDeleteError (a failed unlink is      *)
(* reported, a query that throws after the DELETE is answered 500).        *)
(***************************************************************************)
C15_DeleteState ==
    /\ \A row \in rows : row.signatureName \in files
    /\ \A r \in Requests :
        IsDelete(r) =>
            /\ req[r].pc = "unlink" \/ req[r].signatureDeleted \/ req[r].signatureDeleteError =>
                /\ req[r].affectedRows > 0
                /\ req[r].refCount = 0
                /\ ~Referenced(req[r].signatureName)
            /\ req[r].signatureDeleted => req[r].signatureName \notin files
            /\ /\ req[r].pc \in {"finally", "done"} /\ Succeeded(r)
               /\ req[r].affectedRows > 0 /\ req[r].refCount = 0
               /\ ~req[r].signatureDeleteError
               => req[r].signatureName \notin files
            /\ req[r].refCount > 0 =>
                ~req[r].signatureDeleted /\ ~req[r].signatureDeleteError

C15_DeleteStep ==
    files' # files =>
        \E r \in Requests :
            /\ IsDelete(r) /\ req[r].pc = "unlink"
            /\ files' = files \ {req[r].signatureName}
            /\ rows' = rows

OrphanCandidates == {f \in files : IsSweepCandidate(f) /\ ~Referenced(f)}

AccountHeldByAnother(r) ==
    \E row \in rows :
        /\ row.id # req[r].id
        /\ normalizeAccountNumber(row.accountNumber) = normalizeAccountNumber(req[r].body.accountNumber)

TransactionRefHeldByAnother(r) ==
    \E row \in rows :
        /\ row.id # req[r].id
        /\ row.transactionRef = normalizeTransactionRef(req[r].body.transactionRef)

C17_UpdateCheckStep ==
    \A r \in Requests :
        IsUpdate(r) /\ req'[r].pc # req[r].pc /\ req'[r].response.status # 500 =>
            /\ req[r].pc = "checkAccountNumber" =>
                /\ AccountHeldByAnother(r) <=> Code(r)' = "DUPLICATE_ACCOUNT_NUMBER"
                /\ ~AccountHeldByAnother(r) => req'[r].pc = "checkTransactionRef"
            /\ req[r].pc = "checkTransactionRef" =>
                /\ TransactionRefHeldByAnother(r) <=> Code(r)' = "DUPLICATE_TRANSACTION_REFERENCE"
                /\ ~TransactionRefHeldByAnother(r) => req'[r].pc = "update"
            /\ Code(r)' \in DuplicateCodes =>
                /\ rows' = rows /\ files' = files
                /\ req'[r].pc \in {"finally", "done"}

C17_UpdateRejectedState ==
    \A r \in Requests :
        IsUpdate(r) /\ Code(r) \in DuplicateCodes =>
            /\ req[r].response = Response(409, FALSE, Code(r), <<>>)
            /\ req[r].pc \in {"finally", "done"}

DataFieldsOf(row) ==
    [transactionRef |-> row.transactionRef, accountNumber |-> row.accountNumber,
     customerName |-> row.customerName, scannerName |-> row.scannerName,
     company |-> row.company, date |-> row.date,
     electricityBill |-> row.electricityBill, amountDue |-> row.amountDue,
     totalSales |-> row.totalSales]

StoredDataOf(data) ==
    [data EXCEPT !.electricityBill = ToDecimal(@), !.amountDue = ToDecimal(@),
                 !.totalSales = ToDecimal(@)]

C18_UpdateStep ==
    \A r \in Requests :
        IsUpdate(r) /\ req'[r].pc # req[r].pc =>
            /\ files' = files /\ generated' = generated /\ nextId' = nextId
            /\ req[r].pc # "update" => rows' = rows
            /\ req[r].pc = "update" =>
                /\ {row.id : row \in rows'} = {row.id : row \in rows}
                /\ \A old \in rows, new \in rows' :
                    old.id = new.id =>
                        /\ new.signatureName = old.signatureName
                        /\ new.createdAt = old.createdAt
                        /\ old.id # req[r].id => new = old
                        /\ old.id = req[r].id /\ Succeeded(r)' =>
                            DataFieldsOf(new) = StoredDataOf(req[r].data)

C18_UpdateKeepsIdentityAndSignature == [][C18_UpdateStep]_vars

\* an update has changed the data of a record, whose signature name, file
\* and creation stamp are those of its insertion
C18_Witness ==
    \E r, q \in Requests, row \in rows :
        /\ IsUpdate(r) /\ Succeeded(r)
        /\ IsCreate(q) /\ req[q].insertId = req[r].id
        /\ row.id = req[r].id
        /\ DataFieldsOf(row) = StoredDataOf(req[r].data)
        /\ DataFieldsOf(row) # StoredDataOf(req[q].data)
        /\ row.signatureName = req[q].signatureName
        /\ row.signatureName \in files
        /\ row.createdAt = req[q].insertId

(***************************************************************************)
(* C19: round trip of create and list.                                     *)
(***************************************************************************)
IsList(r) == req[r].kind = "list"

\* a DECIMAL(10, 2) value read back equals the number that was bound: the
\* same value, whatever the digits it is written with
SameAmount(n, d) ==
    IF n.kind # "num" THEN d = Null
    ELSE /\ d # Null
         /\ d.neg = n.neg
         /\ Len(n.fr) <= 2
         /\ d.cents = n.ip * 100
                      + (IF Len(n.fr) >= 1 THEN DigitValue(n.fr[1]) * 10 ELSE 0)
                      + (IF Len(n.fr) >= 2 THEN DigitValue(n.fr[2]) ELSE 0)

\* a listed row is the record create q inserted: its id, and the normalized
\* values and the signature file name of q
ReproducesInserted(row, q) ==
    /\ row.id = req[q].insertId
    /\ row.transactionRef = req[q].data.transactionRef
    /\ row.accountNumber = req[q].data.accountNumber
    /\ row.customerName = req[q].data.customerName
    /\ row.scannerName = req[q].data.scannerName
    /\ row.company = req[q].data.company
    /\ row.date = req[q].data.date
    /\ SameAmount(req[q].data.electricityBill, row.electricityBill)
    /\ SameAmount(req[q].data.amountDue, row.amountDue)
    /\ SameAmount(req[q].data.totalSales, row.totalSales)
    /\ row.signatureName = req[q].signatureName

\* the create of slot q had succeeded and was over when the list of slot r
\* arrived
CreatedBefore(q, r) == IsCreate(q) /\ Succeeded(q) /\ ~Concurrent(q, r)

\* C19: whatever the number of records already in the store, a list request
\* that arrives after a create has succeeded and is answered with rows
\* returns a row with the id of the new record whose transactionRef,
\* accountNumber, customerName, scannerName, company, date, amounts and
\* signatureName are the normalized values the create inserted.
C19_ListReturnsCreatedRecord ==
    [][\A r \in Requests :
          (IsList(r) /\ req[r].pc = "selectRows" /\ req'[r].response.ok)
          => \A q \in Requests \ {r} :
                CreatedBefore(q, r)
                => \E i \in DOMAIN req'[r].listed :
                      ReproducesInserted(req'[r].listed[i], q)]_vars

(***************************************************************************)
(* C20: the validator collects one message per violated field.             *)
(***************************************************************************)
\* the rule of each field, stated on the received value
ViolatesTransactionRef(body) == countDigits(body.transactionRef) < MinTransactionDigits
ViolatesDate(body) == trim(body.date) = <<>>
ViolatesCustomerName(body) == ~IsValidCustomerName(trim(body.customerName))
ViolatesAccountNumber(body) ==
    LET digits == StripLeadingB(normalizeAccountNumber(body.accountNumber))
    IN  Len(digits) < MinAccountDigits \/ \E i \in DOMAIN digits : ~IsDigit(digits[i])
ViolatesScannerName(body) == trim(body.scannerName) = <<>>
ViolatesElectricityBill(body) ==
    LET bill == parseMoney(body.electricityBill)
    IN  bill.kind # "num" \/ bill.neg \/ bill.ip < MinBillAmount
ViolatesAmountDue(body) == parseMoney(body.amountDue) = NaN
ViolatesTotalSales(body) == parseMoney(body.totalSales) = NaN

\* the messages of each field, the fields in their fixed order
FieldMessages ==
    << {"Transaction Reference is required",
        "Transaction reference must have at least 15 digits"},
       {"Date is required"},
       {"Customer Name is required", "Customer Name must contain valid text only"},
       {"Account Number is required", "Account number must contain at least 6 digits"},
       {"Scanner Name is required"},
       {"Amount (Bill) is required", "Bill amount must be at least 50"},
       {"Amount Due must be a valid number"},
       {"Total Sales must be a valid number"} >>

FieldViolated(body) ==
    << ViolatesTransactionRef(body), ViolatesDate(body), ViolatesCustomerName(body),
       ViolatesAccountNumber(body), ViolatesScannerName(body),
       ViolatesElectricityBill(body), ViolatesAmountDue(body), ViolatesTotalSales(body) >>

\* the fields a body violates, in the fixed order
ViolatedFields(body) == SelectSeq(<<1, 2, 3, 4, 5, 6, 7, 8>>, LAMBDA f : FieldViolated(body)[f])

\* the submission of slot r has been through the validator
WasValidated(r) == IsCreate(r) /\ req[r].pc # "idle"

\* C20: for any payload the error list of the validator has exactly one
\* message for each violated field (transactionRef, date, customerName,
\* accountNumber, scannerName, electricityBill, amountDue, totalSales), in
\* that fixed order, and it is empty exactly when no rule is violated: the
\* submission is answered VALIDATION_ERROR with that list, or goes on.
C20_OneMessagePerViolatedField ==
    \A r \in DOMAIN req :
        WasValidated(r)
        => LET violated == ViolatedFields(req[r].body)
               errors == req[r].response.details
           IN  /\ Len(errors) = Len(violated)
               /\ \A i \in DOMAIN errors : errors[i] \in FieldMessages[violated[i]]
               /\ (errors = <<>>) <=> (req[r].pc = "getConnection")
               /\ errors # <<>> => Code(r) = "VALIDATION_ERROR"

\* a payload that violates the rule of every field has been answered with
\* eight messages
C20_Witness ==
    \E r \in DOMAIN req :
        /\ WasValidated(r)
        /\ Len(ViolatedFields(req[r].body)) = 8
        /\ Len(req[r].response.details) = 8

(***************************************************************************)
(* C21: the shape of an accepted account number.                           *)
(***************************************************************************)
AccountMessages == {"Account Number is required", "Account number must contain at least 6 digits"}

\* the validator pushed a message about the account number
AccountRejected(r) ==
    \E i \in DOMAIN req[r].response.details : req[r].response.details[i] \in AccountMessages

\* a letter prefix followed by at least 6 digits and nothing else
HasLetterPrefixAndDigits(accountNumber) ==
    /\ accountNumber # <<>>
    /\ IsLetter(accountNumber[1])
    /\ Len(accountNumber) - 1 >= MinAccountDigits
    /\ \A i \in 2..Len(accountNumber) : IsDigit(accountNumber[i])

\* C21: an account number the validator accepts is, once normalized
\* (uppercase, whitespace stripped), a letter prefix followed by at least 6
\* digits; an account number without the letter prefix or with fewer than 6
\* digits gets an account message.
C21_AcceptedAccountHasLetterPrefix ==
    \A r \in DOMAIN req :
        WasValidated(r)
        => LET accountNumber == req[r].data.accountNumber
           IN  /\ ~AccountRejected(r) => HasLetterPrefixAndDigits(accountNumber)
               /\ (accountNumber = <<>> \/ ~IsLetter(accountNumber[1])
                   \/ countDigits(accountNumber) < MinAccountDigits)
                  => AccountRejected(r)

(***************************************************************************)
(* C22: the rule of electricityBill.                                       *)
(***************************************************************************)
BillMessages == {"Amount (Bill) is required", "Bill amount must be at least 50"}

\* the validator pushed a message about the bill
BillRejected(r) ==
    \E i \in DOMAIN req[r].response.details : req[r].response.details[i] \in BillMessages

\* the received value without its thousands separators
WithoutSeparators(value) == trim(SelectSeq(value, LAMBDA c : c # ","))

Unsigned(s) == IF s # <<>> /\ Head(s) \in {"+", "-"} THEN Tail(s) ELSE s

\* the whole string is a decimal numeral: an optional sign, digits, and an
\* optional point followed by digits
IsDecimalNumeral(s) ==
    LET ip == DigitPrefix(Unsigned(s))
        rest == SubSeq(Unsigned(s), Len(ip) + 1, Len(Unsigned(s)))
    IN  \/ ip # <<>> /\ rest = <<>>
        \/ /\ rest # <<>>
           /\ Head(rest) = "."
           /\ \A i \in 2..Len(rest) : IsDigit(rest[i])
           /\ (ip # <<>> \/ Len(rest) > 1)

\* the numeral s denotes a number of at least k
NumeralAtLeast(s, k) == Head(s) # "-" /\ DigitsToNat(DigitPrefix(Unsigned(s))) >= k

\* C22: the validator accepts electricityBill exactly when the value, after
\* stripping thousands separators, parses to a finite number of at least 50
\* ("49.99" is rejected, "50.00" is accepted), and an absent or empty value
\* is rejected as required.
C22_BillAcceptedIffAtLeastFifty ==
    \A r \in DOMAIN req :
        WasValidated(r)
        => LET s == WithoutSeparators(req[r].body.electricityBill)
           IN  /\ ~BillRejected(r) <=> (IsDecimalNumeral(s) /\ NumeralAtLeast(s, MinBillAmount))
               /\ s = <<>>
                  => \E i \in DOMAIN req[r].response.details :
                        req[r].response.details[i] = "Amount (Bill) is required"

(***************************************************************************)
(* C23: the rule of transactionRef.                                        *)
(***************************************************************************)
TransactionRefMessages ==
    {"Transaction Reference is required", "Transaction reference must have at least 15 digits"}

\* the validator pushed a message about the transaction reference
TransactionRefRejected(r) ==
    \E i \in DOMAIN req[r].response.details :
        req[r].response.details[i] \in TransactionRefMessages

\* the number of digit characters of a received value
DigitCount(value) == Cardinality({i \in DOMAIN value : IsDigit(value[i])})

\* C23: the validator accepts transactionRef exactly when the received value
\* holds at least 15 digits once every other character is stripped (14
\* digits fail, 15 pass), and the normalized value that goes on to be
\* stored is the digits of the received value, in their order, and
\* nothing else.
C23_TransactionRefAcceptedIffFifteenDigits ==
    \A r \in DOMAIN req :
        WasValidated(r)
        => /\ ~TransactionRefRejected(r)
              <=> DigitCount(req[r].body.transactionRef) >= MinTransactionDigits
           /\ \A i \in DOMAIN req[r].data.transactionRef : IsDigit(req[r].data.transactionRef[i])
           /\ req[r].data.transactionRef = SelectSeq(req[r].body.transactionRef, IsDigit)

\* a reference of exactly 15 digits written with separators has been
\* accepted and normalized
C23_Witness ==
    \E r \in DOMAIN req :
        /\ WasValidated(r)
        /\ DigitCount(req[r].body.transactionRef) = MinTransactionDigits
        /\ req[r].body.transactionRef # req[r].data.transactionRef
        /\ ~TransactionRefRejected(r)

(***************************************************************************)
(* C24: the extractor's transaction reference rule.                        *)
(***************************************************************************)
WasParsed(r) == req[r].kind = "scan" /\ req[r].pc = "parsed"

\* the text of the example: the label, a colon and a space, then Z and
\* fifteen O
ExampleText == <<"T", "r", "a", "n", "s", " ", "R", "e", "f", ":", " ">> \o ConfusableReference

\* the digit a confusable character stands for
ConfusableDigit(c) ==
    IF c = "O" THEN "0" ELSE IF c \in {"I", "l"} THEN "1" ELSE IF c = "Z" THEN "2"
    ELSE IF c = "S" THEN "5" ELSE IF c = "B" THEN "8" ELSE c

\* the characters at the end of the text that are digits or confusables
WrittenAtEnd(text) ==
    LET cls == DigitSet \cup {"O", "I", "l", "Z", "S", "B"}
        from == CHOOSE i \in 1..(Len(text) + 1) :
                   /\ \A j \in i..Len(text) : text[j] \in cls
                   /\ (i = 1 \/ text[i - 1] \notin cls)
    IN  SubSeq(text, from, Len(text))

\* the reference written at the end of the text is set off from the label
\* by a colon, a dash or white space and has 15 to 20 characters
EndsWithReference(text) ==
    LET written == WrittenAtEnd(text)
    IN  /\ Len(written) >= MinCaptureLength
        /\ Len(written) <= MaxCleanedLength
        /\ Len(written) < Len(text)
        /\ text[Len(text) - Len(written)] \in Whitespace \cup {":", "-"}

\* C24 as stated: the rule yields a digits-only reference, and the input
\* "Trans Ref: ZOOOOOOOOOOOOOOO" extracts to "200000000000000".
C24_ExampleExtractsFifteenDigits ==
    \A r \in DOMAIN req :
        WasParsed(r)
        => /\ \A i \in DOMAIN req[r].parsedData.transactionRef :
                 IsDigit(req[r].parsedData.transactionRef[i])
           /\ req[r].rawText = ExampleText
              => req[r].parsedData.transactionRef
                     = <<"2">> \o [i \in 1..(MinCaptureLength - 1) |-> "0"]

\* C24, amended: the rule yields a digits-only reference; a reference of 15
\* to 20 digits and confusable characters written at the end of the text
\* after the label is extracted with O read as 0, I and l as 1, Z as 2, S
\* as 5 and B as 8, character by character; the input
\* "Trans Ref: ZOOOOOOOOOOOOOOO", Z followed by fifteen O, extracts to the
\* sixteen digits "2000000000000000".
C24_ConfusablesCorrected ==
    \A r \in DOMAIN req :
        WasParsed(r)
        => /\ \A i \in DOMAIN req[r].parsedData.transactionRef :
                 IsDigit(req[r].parsedData.transactionRef[i])
           /\ (req[r].parsedData.found /\ EndsWithReference(req[r].rawText))
              => req[r].parsedData.transactionRef
                     = [i \in DOMAIN WrittenAtEnd(req[r].rawText) |->
                           ConfusableDigit(WrittenAtEnd(req[r].rawText)[i])]
           /\ req[r].rawText = ExampleText
              => /\ req[r].parsedData.found
                 /\ req[r].parsedData.transactionRef
                        = <<"2">> \o [i \in 1..MinCaptureLength |-> "0"]

\* the text of the example has been parsed
C24_Witness ==
    \E r \in DOMAIN req :
        WasParsed(r) /\ req[r].rawText = ExampleText /\ req[r].parsedData.found

(***************************************************************************)
(* C25: every submission finishes with a response.                         *)
(***************************************************************************)
Finished(r) == req[r].pc = "done" /\ Responded(r)

HasNoPathPart(name) ==
    /\ \A i \in DOMAIN name : name[i] \notin {"/", "\\"}
    /\ \A i \in 1..(Len(name) - 1) : ~(name[i] = "." /\ name[i + 1] = ".")

\* the files a step removes from the shared directory
RemovedFiles == files \ files'

\* C26 as stated: the sweep deletes only files whose names begin with
\* signature_ and end with .png and hold no path separator and no '..';
\* every other file, and every file in the reference set the sweep read,
\* is left untouched.
C26_SweepDeletesOnlyLowerCasePng ==
    [][\A name \in RemovedFiles :
          /\ startsWith(name, SignaturePrefix)
          /\ endsWith(name, PngSuffix)
          /\ HasNoPathPart(name)
          /\ name \notin sweep.referencedFiles]_vars

\* C26, amended: the sweep deletes only files whose names begin with
\* signature_ and end with .png written in any letter case (.png, .PNG,
\* .Png) and hold no path separator and no '..'; every other file, and
\* every file in the reference set the sweep read, is left untouched by any
\* number of sweeps.
C26_SweepDeletesOnlySignaturePng ==
    [][\A name \in RemovedFiles :
          /\ startsWith(name, SignaturePrefix)
          /\ endsWith(toLowerCase(name), PngSuffix)
          /\ HasNoPathPart(name)
          /\ name \notin sweep.referencedFiles]_vars

\* a sweep has deleted the orphans and has left the referenced file, the
\* other png and the text file in place
C26_Witness ==
    /\ sweep.stats.deleted > 0
    /\ OrphanFile1 \notin files
    /\ OrphanFile2 \notin files
    /\ {SharedSignatureFile, ForeignPng} \cup InitialFiles \subseteq files

(***************************************************************************)
(* C27: when the cleanup sweep and a record deletion (or two deletions)    *)
(* both try to remove the same signature file, the attempt that finds the  *)
(* file already gone is treated as success: the sweep counts no error, and *)
(* the delete response is the ok response without signatureDeleteError,    *)
(* while the record row is deleted.                                        *)
(***************************************************************************)
\* the file name the sweep takes from its listing in this step
SweepTaken == sweep.filesInDir \ sweep'.filesInDir

\* the sweep's unlink of this step finds its file already gone
SweepFindsFileGone ==
    /\ sweep.pc = "loop"
    /\ \E fileName \in SweepTaken :
        /\ IsSweepCandidate(fileName)
        /\ fileName \notin sweep.referencedFiles
        /\ fileName \notin files

\* the unlink of delete request r finds its file already gone in this step
DeleteFindsFileGone(r) ==
    /\ req[r].pc = "unlink"
    /\ req'[r].pc # "unlink"
    /\ req[r].signatureName \notin files

C27_FileAlreadyGoneIsSuccess ==
    [][ /\ SweepFindsFileGone =>
            /\ sweep'.stats.errors = sweep.stats.errors
            /\ sweep'.stats.deleted = sweep.stats.deleted
        /\ \A r \in Requests : DeleteFindsFileGone(r) =>
            /\ ~req'[r].signatureDeleteError
            /\ ~req'[r].signatureDeleted
            /\ req'[r].response = DeleteResponse
            /\ req'[r].response.ok
            /\ req[r].affectedRows > 0
            /\ \A row \in rows' : row.id # req[r].id ]_vars

\* every candidate of the stored directory
StoredCandidates ==
    {fileName \in InitialFiles \cup {SharedSignatureFile, OwnSignatureFile} :
        IsSweepCandidate(fileName)}

\* a delete answered after its unlink found the file gone, and a sweep that
\* listed the same file as unreferenced and removed nothing, without an error
C27_Witness ==
    /\ \E r \in Requests :
        /\ req[r].kind = "delete"
        /\ req[r].pc \in {"finally", "done"}
        /\ req[r].response = DeleteResponse
        /\ req[r].affectedRows > 0
        /\ req[r].refCount = 0
        /\ isSafeSignatureFilename(req[r].signatureName)
        /\ ~req[r].signatureDeleted
        /\ ~req[r].signatureDeleteError
        /\ req[r].signatureName \notin files
        /\ req[r].signatureName \notin sweep.referencedFiles
    /\ sweep.pc = "loop"
    /\ sweep.filesInDir = {}
    /\ sweep.stats.scanned = Cardinality(StoredCandidates)
    /\ sweep.stats.deleted = 0
    /\ sweep.stats.errors = 0

(***************************************************************************)
(* C28: the signature write is attempted at most twice per submission; the *)
(* second attempt is made only after the first failed or timed out; a      *)
(* success on either attempt saves under the one generated file name; and  *)
(* SIGNATURE_SAVE_FAILED carries the error of the last attempt.  As        *)
(* stated, only two consecutive write failures yield SIGNATURE_SAVE_FAILED.*)
(***************************************************************************)
SaveFailed(r) == req[r].response.code = "SIGNATURE_SAVE_FAILED"

MatchesSignaturePattern(fileName) ==
    /\ Len(fileName) >= Len(SignaturePrefix) + Len(PngSuffix)
    /\ startsWith(fileName, SignaturePrefix)
    /\ endsWith(fileName, PngSuffix)

IsOrphan(fileName) ==
    /\ fileName \in files
    /\ MatchesSignaturePattern(fileName)
    /\ ~Referenced(fileName)

StoredAsShown(t) == \E row \in rows : row.id = t.id /\ TableRowOf(row) = t

\* some stored record shows the cells of this new table row
StoredAsNew(t) ==
    \E row \in rows : [TableRowOf(row) EXCEPT !.id = 0, !.signatureName = <<>>] = t

StoredCarriesEdits ==
    /\ \A t \in dashboard.savedTable :
        IF t.id # 0 THEN StoredAsShown(t)
        ELSE t # BlankTableRow => StoredAsNew(t)
    /\ \A id \in dashboard.savedDeleted : \A row \in rows : row.id # id

C30_SaveLeavesEditModeOnlyOnSuccess ==
    dashboard.leftBySave => (~dashboard.rejected /\ StoredCarriesEdits)

====
